---- MODULE Spec2Model ----
(***************************************************************************)
(* A model of the DeepSeek-OCR-CPU extraction and structuring pipeline:    *)
(*   - inference/extraction/bbox_processor.py    (box geometry)            *)
(*   - inference/extraction/element_extractor.py (grounding parser,        *)
(*                                                 element extraction)     *)
(*   - inference/extraction/image_cropper.py     (element crops)           *)
(*   - inference/extraction/overlay_generator.py (type overlays)           *)
(*   - inference/image.py                         (process_image_enhanced) *)
(*   - inference/pdf_to_images.py                 (page image names)       *)
(*   - inference/pdf.py                           (process_pdf_enhanced)   *)
(*                                                                         *)
(* Two specifications: SpecExtract runs extract_all_elements on the raw    *)
(* outputs the OCR model may write; Spec runs process_pdf_enhanced on one  *)
(* PDF, page by page.                                                      *)
(*                                                                         *)
(* Text is a sequence of tokens: the four grounding delimiters are atomic  *)
(* tokens, every other token is a piece of text holding no delimiter.      *)
(* Optional values (Python's None) are sequences of length 0 or 1.         *)
(***************************************************************************)
EXTENDS Integers, Sequences, FiniteSets, TLC

\* ------------------------------------------------------------------ bounds
\* Largest number of text segments (references, stray text) of a raw output.
MaxSegs == 3
\* Largest number of page images a PDF converts to.
MaxPages == 3
\* Largest coordinate of a box a geometry function is called on.
MaxCoord == 3
\* Largest number of elements an overlay is generated for.
MaxElements == 2
\* Largest reading of the clock.
MaxClock == 3
\* Largest number of operations a tracker records.
MaxOps == 3

\* --------------------------------------------------------------- utilities
Max(a, b) == IF a >= b THEN a ELSE b
Min(a, b) == IF a <= b THEN a ELSE b
SetMin(S) == CHOOSE x \in S : \A y \in S : x <= y
SetMax(S) == CHOOSE x \in S : \A y \in S : x >= y
Range(s) == {s[i] : i \in DOMAIN s}

RECURSIVE Sum(_)
Sum(s) == IF s = <<>> THEN 0 ELSE Head(s) + Sum(Tail(s))

RECURSIVE Join(_)
\* The string made of the tokens of s, in order.
Join(s) == IF s = <<>> THEN "" ELSE Head(s) \o Join(Tail(s))

RECURSIVE Flatten(_)
Flatten(ss) == IF ss = <<>> THEN <<>> ELSE Head(ss) \o Flatten(Tail(ss))

\* Python's format spec 04d: sign-aware, zero-padded to a width of at least 4.
Pad4(n) ==
    LET a == IF n < 0 THEN -n ELSE n
        digits == IF a < 10 THEN 1 ELSE IF a < 100 THEN 2 ELSE IF a < 1000 THEN 3 ELSE 4
        width == IF n < 0 THEN 3 ELSE 4
        zeros == Max(0, width - digits)
    IN (IF n < 0 THEN "-" ELSE "")
       \o (CASE zeros = 0 -> "" [] zeros = 1 -> "0" [] zeros = 2 -> "00" [] OTHER -> "000")
       \o ToString(a)

\* ------------------------------------------------- binary64 arithmetic
\* denormalize_bbox_999 computes int(c / 999 * dim) in IEEE-754 binary64:
\* the quotient c / 999 is rounded to a 53-bit significand, the product
\* with dim is rounded again (both to nearest, ties to even), and int()
\* truncates.  A significand is held in three limbs of 18 bits, top limb
\* first; sh is the number of fraction bits of the top limb.  Valid for
\* 0 <= c < 2^17 and 0 <= dim < 2^12.
Limb == 2 ^ 18
TopLow == 2 ^ 16

BitLen(n) == IF n = 0 THEN 0 ELSE (CHOOSE k \in 1..31 : 2 ^ (k - 1) <= n /\ (k = 31 \/ n < 2 ^ k))

\* The limbs <<m2, m1, m0>> after a carry into the lowest limb.
Carry(m2, m1, m0) ==
    IF m0 < Limb THEN <<m2, m1, m0>>
    ELSE IF m1 + 1 < Limb THEN <<m2, m1 + 1, 0>>
    ELSE <<m2 + 1, 0, 0>>

\* int() of the product limbs <<x2, x1, x0>> rounded to 53 bits, of which
\* d bits of x0 are dropped.
RoundProduct(x2, x1, x0, d, sh) ==
    IF d <= 0 THEN x2 \div (2 ^ sh)
    ELSE IF x0 % (2 ^ d) > 2 ^ (d - 1)
            \/ (x0 % (2 ^ d) = 2 ^ (d - 1) /\ (x0 \div (2 ^ d)) % 2 = 1)
    THEN Carry(x2, x1, (x0 - (x0 % (2 ^ d))) + 2 ^ d)[1] \div (2 ^ sh)
    ELSE x2 \div (2 ^ sh)

Product2(x2, x1, x0, sh) == RoundProduct(x2, x1, x0, BitLen(x2) - 17, sh)
Product1(m2, t1, x0, dim, sh) == Product2(m2 * dim + t1 \div Limb, t1 % Limb, x0, sh)
Product0(m2, m1, t0, dim, sh) == Product1(m2, m1 * dim + t0 \div Limb, t0 % Limb, dim, sh)

\* int(fl(q * dim)) for the quotient q = <<m2, m1, m0>>.
MulTrunc(q, dim, sh) == Product0(q[1], q[2], q[3] * dim, dim, sh)

\* fl(c / 999) times dim, the quotient's limbs taken by long division:
\* r is the remainder so far, and the last remainder rounds the quotient.
Quotient0(m2, m1, t, dim, sh) ==
    MulTrunc(Carry(m2, m1, t \div 999 + (IF 2 * (t % 999) > 999 THEN 1 ELSE 0)), dim, sh)
Quotient1(m2, t, dim, sh) == Quotient0(m2, t \div 999, (t % 999) * Limb, dim, sh)
Quotient2(t, dim, sh) == Quotient1(t \div 999, (t % 999) * Limb, dim, sh)
Div999Mul(c, dim, sh) == Quotient2(c * (2 ^ sh), dim, sh)

\* int(c / 999 * dim) for c >= 0; a multiple of 999 divides exactly.
Scale999Abs(c, dim) ==
    IF c % 999 = 0 THEN (c \div 999) * dim
    ELSE Div999Mul(c, dim, CHOOSE s \in 0..27 : c * (2 ^ s) >= 999 * TopLow)

\* int(c / 999 * dim) as Python evaluates it on floats.
Scale999(c, dim) ==
    IF c < 0 THEN -Scale999Abs(-c, dim) ELSE Scale999Abs(c, dim)

\* --------------------------------------------------------- bbox_processor
Box(x1, y1, x2, y2) == [x1 |-> x1, y1 |-> y1, x2 |-> x2, y2 |-> y2]

denormalize_bbox_999(bbox, image_width, image_height) ==
    Box(Scale999(bbox.x1, image_width), Scale999(bbox.y1, image_height),
        Scale999(bbox.x2, image_width), Scale999(bbox.y2, image_height))

validate_bbox(bbox, image_width, image_height, allow_out_of_bounds) ==
    IF bbox.x1 >= bbox.x2 \/ bbox.y1 >= bbox.y2 THEN FALSE
    ELSE IF bbox.x1 < 0 \/ bbox.y1 < 0 THEN FALSE
    ELSE IF ~allow_out_of_bounds /\ (bbox.x2 > image_width \/ bbox.y2 > image_height) THEN FALSE
    ELSE TRUE

\* A faulty clipping that bounds the coordinates from above only.
ClipFromAbove(bbox, image_width, image_height) ==
    Box(Min(bbox.x1, image_width), Min(bbox.y1, image_height),
        Min(bbox.x2, image_width), Min(bbox.y2, image_height))

clip_bbox_to_image(bbox, image_width, image_height) ==
    Box(Max(0, Min(bbox.x1, image_width)), Max(0, Min(bbox.y1, image_height)),
        Max(0, Min(bbox.x2, image_width)), Max(0, Min(bbox.y2, image_height)))

\* validate_bbox on a dict d whose keys in d.missing are absent, whose values
\* under the keys in d.malformed are None and whose values under the keys in
\* d.nan are float('nan'); the other values are those of d.fields.  KeyError
\* and TypeError are caught and False is returned; every comparison with a
\* NaN is false and raises nothing.
TryValidate(d, image_width, image_height, allow_out_of_bounds) ==
    IF d.missing # {} THEN FALSE
    ELSE IF {"x1", "x2"} \cap d.malformed # {} THEN FALSE
    ELSE IF {"x1", "x2"} \cap d.nan = {} /\ d.fields.x1 >= d.fields.x2 THEN FALSE
    ELSE IF {"y1", "y2"} \cap d.malformed # {} THEN FALSE
    ELSE IF d.nan = {}
    THEN validate_bbox(d.fields, image_width, image_height, allow_out_of_bounds)
    ELSE IF {"y1", "y2"} \cap d.nan = {} /\ d.fields.y1 >= d.fields.y2 THEN FALSE
    ELSE IF ("x1" \notin d.nan /\ d.fields.x1 < 0) \/ ("y1" \notin d.nan /\ d.fields.y1 < 0)
    THEN FALSE
    ELSE IF /\ ~allow_out_of_bounds
            /\ \/ ("x2" \notin d.nan /\ d.fields.x2 > image_width)
               \/ ("y2" \notin d.nan /\ d.fields.y2 > image_height)
    THEN FALSE
    ELSE TRUE

add_padding(bbox, padding, image_width, image_height) ==
    Box(Max(0, bbox.x1 - padding), Max(0, bbox.y1 - padding),
        Min(image_width, bbox.x2 + padding), Min(image_height, bbox.y2 + padding))

\* A faulty IoU whose union counts the intersection twice.
CheckOverlapSumOfAreas(bbox1, bbox2) ==
    LET x1_inter == Max(bbox1.x1, bbox2.x1)
        y1_inter == Max(bbox1.y1, bbox2.y1)
        x2_inter == Min(bbox1.x2, bbox2.x2)
        y2_inter == Min(bbox1.y2, bbox2.y2)
        inter_area == (x2_inter - x1_inter) * (y2_inter - y1_inter)
        union_area == (bbox1.x2 - bbox1.x1) * (bbox1.y2 - bbox1.y1)
                      + (bbox2.x2 - bbox2.x1) * (bbox2.y2 - bbox2.y1)
    IN IF x1_inter >= x2_inter \/ y1_inter >= y2_inter THEN <<0, 1>>
       ELSE IF union_area > 0 THEN <<inter_area, union_area>> ELSE <<0, 1>>

\* check_overlap: the IoU as the fraction <<numerator, denominator>>, 0.0
\* as <<0, 1>>.
check_overlap(bbox1, bbox2) ==
    LET x1_inter == Max(bbox1.x1, bbox2.x1)
        y1_inter == Max(bbox1.y1, bbox2.y1)
        x2_inter == Min(bbox1.x2, bbox2.x2)
        y2_inter == Min(bbox1.y2, bbox2.y2)
        inter_area == (x2_inter - x1_inter) * (y2_inter - y1_inter)
        bbox1_area == (bbox1.x2 - bbox1.x1) * (bbox1.y2 - bbox1.y1)
        bbox2_area == (bbox2.x2 - bbox2.x1) * (bbox2.y2 - bbox2.y1)
        union_area == bbox1_area + bbox2_area - inter_area
    IN IF x1_inter >= x2_inter \/ y1_inter >= y2_inter THEN <<0, 1>>
       ELSE IF union_area > 0 THEN <<inter_area, union_area>> ELSE <<0, 1>>

\* ------------------------------------------------------ element_extractor
REF_OPEN == "<|ref|>"
REF_CLOSE == "<|/ref|>"
DET_OPEN == "<|det|>"
DET_CLOSE == "<|/det|>"
Delimiters == {REF_OPEN, REF_CLOSE, DET_OPEN, DET_CLOSE}

\* The leftmost match of <\|ref\|>(.*?)<\|/ref\|><\|det\|>(.*?)<\|/det\|>
\* (re.DOTALL) that starts at token p: <<a, b>>, the places of the closing
\* reference tag and of the closing detection tag, or <<>> if none starts
\* at p.  Both groups are non-greedy: the first closing reference tag that
\* is directly followed by an opening detection tag and, later, a closing
\* detection tag ends group 1 (backtracking extends it over anything else).
MatchAt(text, p) ==
    LET As == {a \in (p + 1)..(Len(text) - 2) :
                  /\ text[a] = REF_CLOSE
                  /\ text[a + 1] = DET_OPEN
                  /\ \E b \in (a + 2)..Len(text) : text[b] = DET_CLOSE}
    IN IF text[p] # REF_OPEN \/ As = {} THEN <<>>
       ELSE LET a == SetMin(As)
            IN <<a, SetMin({b \in (a + 2)..Len(text) : text[b] = DET_CLOSE})>>

RECURSIVE FindAll(_, _)
\* re.findall from token i on: non-overlapping matches, left to right.
FindAll(text, i) ==
    LET starts == {p \in i..Len(text) : MatchAt(text, p) # <<>>}
    IN IF starts = {} THEN <<>>
       ELSE LET p == SetMin(starts)
                m == MatchAt(text, p)
            IN <<[label |-> Join(SubSeq(text, p + 1, m[1] - 1)),
                  coords |-> Join(SubSeq(text, m[1] + 2, m[2] - 1))]>>
               \o FindAll(text, m[2] + 1)

parse_grounding_references(text) == FindAll(text, 1)

\* A list item as eval builds it: kind "seq" for a list or tuple of numbers
\* (nums), kind "num" for a bare number, which has no len().
Quad(a, b, c, d) == [kind |-> "seq", nums |-> <<a, b, c, d>>]
Triple(a, b, c) == [kind |-> "seq", nums |-> <<a, b, c>>]
Num(a) == [kind |-> "num", nums |-> <<a>>]

\* What Python's eval returns for the coordinate literals of the model:
\* kind "list" with the list's items, kind "other" for a value that is no
\* list, kind "raise" when evaluation raises (any other string).
eval(coords_str) ==
    CASE coords_str = "[[0,0,100,50]]" ->
            [kind |-> "list", items |-> <<Quad(0, 0, 100, 50)>>]
      [] coords_str = "[[0,0,40,999]]" ->
            [kind |-> "list", items |-> <<Quad(0, 0, 40, 999)>>]
      [] coords_str = "[[63,0,252,999],[500,500,100,100]]" ->
            [kind |-> "list", items |-> <<Quad(63, 0, 252, 999), Quad(500, 500, 100, 100)>>]
      [] coords_str = "[[-50,0,500,500],[100,100,500,500]]" ->
            [kind |-> "list", items |-> <<Quad(-50, 0, 500, 500), Quad(100, 100, 500, 500)>>]
      [] coords_str = "[[1,2,3],[900,900,1200,1200]]" ->
            [kind |-> "list", items |-> <<Triple(1, 2, 3), Quad(900, 900, 1200, 1200)>>]
      [] coords_str = "[[100,100,100,500]]" ->
            [kind |-> "list", items |-> <<Quad(100, 100, 100, 500)>>]
      [] coords_str = "[1,2,3,4]" ->
            [kind |-> "list", items |-> <<Num(1), Num(2), Num(3), Num(4)>>]
      [] coords_str = "[[2*5,0,50+50,50]]" ->
            [kind |-> "list", items |-> <<Quad(10, 0, 100, 50)>>]
      [] coords_str = "(1,2,3,4)" ->
            [kind |-> "other"]
      [] OTHER ->
            [kind |-> "raise"]

\* Optional list of boxes: <<items>>, or <<>> for None.
parse_coordinates(coords_str) ==
    LET coords == eval(coords_str)
    IN IF coords.kind = "list" THEN <<coords.items>> ELSE <<>>

\* extract_options with the defaults of extract_all_elements filled in.
DefaultOptions == [padding |-> 0, min_width |-> 10, min_height |-> 10, validate_strict |-> FALSE]

\* The body of the inner loop of extract_all_elements for one item of
\* coords_list: raised when len(coords) raises TypeError; otherwise box is
\* <<bbox_abs>> when the box is appended to bounding_boxes and <<>> when
\* the loop continues without it.
\* ... the minimum size check on the clipped box
CheckSize(bbox_abs, options) ==
    IF bbox_abs.x2 - bbox_abs.x1 < options.min_width
       \/ bbox_abs.y2 - bbox_abs.y1 < options.min_height
    THEN [raised |-> FALSE, box |-> <<>>]
    ELSE [raised |-> FALSE, box |-> <<bbox_abs>>]

\* ... validation and clipping of the box in absolute pixels
ValidateAndClip(bbox_abs, image_width, image_height, options) ==
    IF ~validate_bbox(bbox_abs, image_width, image_height, TRUE) /\ options.validate_strict
    THEN [raised |-> FALSE, box |-> <<>>]
    ELSE CheckSize(clip_bbox_to_image(bbox_abs, image_width, image_height), options)

ProcessCoords(coords, image_width, image_height, options) ==
    IF coords.kind = "num" THEN [raised |-> TRUE, box |-> <<>>]
    ELSE IF Len(coords.nums) # 4 THEN [raised |-> FALSE, box |-> <<>>]
    ELSE ValidateAndClip(
             denormalize_bbox_999(
                 Box(coords.nums[1], coords.nums[2], coords.nums[3], coords.nums[4]),
                 image_width, image_height),
             image_width, image_height, options)

\* The inner loop over coords_list: the boxes appended, or raised.
BoundingBoxes(coords_list, image_width, image_height, options) ==
    LET each == [i \in DOMAIN coords_list |->
                    ProcessCoords(coords_list[i], image_width, image_height, options)]
    IN [raised |-> \E i \in DOMAIN each : each[i].raised,
        boxes |-> Flatten([i \in DOMAIN each |-> each[i].box])]

ElementId(page_number, element_index) ==
    "page_" \o Pad4(page_number) \o "_elem_" \o Pad4(element_index)

\* A faulty element whose total_area is the area of the envelope.
ElementEnvelopeArea(label_type, bounding_boxes, page_number, element_index, image_width, image_height) ==
    LET width == SetMax({b.x2 : b \in Range(bounding_boxes)})
                 - SetMin({b.x1 : b \in Range(bounding_boxes)})
        height == SetMax({b.y2 : b \in Range(bounding_boxes)})
                  - SetMin({b.y1 : b \in Range(bounding_boxes)})
    IN [id |-> ElementId(page_number, element_index),
        type |-> label_type,
        page |-> page_number,
        index |-> element_index,
        bounding_boxes |-> bounding_boxes,
        bounding_boxes_normalized |->
            [i \in DOMAIN bounding_boxes |->
                [x1 |-> <<bounding_boxes[i].x1, image_width>>,
                 y1 |-> <<bounding_boxes[i].y1, image_height>>,
                 x2 |-> <<bounding_boxes[i].x2, image_width>>,
                 y2 |-> <<bounding_boxes[i].y2, image_height>>]],
        metrics |->
            [num_boxes |-> Len(bounding_boxes),
             total_area |-> width * height,
             width |-> width,
             height |-> height,
             aspect_ratio |-> IF height > 0 THEN <<width, height>> ELSE <<0, 1>>],
        image_dimensions |-> [width |-> image_width, height |-> image_height]]

\* The element dict built from the surviving boxes of one reference.
\* Quotients are kept as fractions <<numerator, denominator>>.
Element(label_type, bounding_boxes, page_number, element_index, image_width, image_height) ==
    LET min_x1 == SetMin({b.x1 : b \in Range(bounding_boxes)})
        min_y1 == SetMin({b.y1 : b \in Range(bounding_boxes)})
        max_x2 == SetMax({b.x2 : b \in Range(bounding_boxes)})
        max_y2 == SetMax({b.y2 : b \in Range(bounding_boxes)})
        overall_width == max_x2 - min_x1
        overall_height == max_y2 - min_y1
    IN [id |-> ElementId(page_number, element_index),
        type |-> label_type,
        page |-> page_number,
        index |-> element_index,
        bounding_boxes |-> bounding_boxes,
        bounding_boxes_normalized |->
            [i \in DOMAIN bounding_boxes |->
                [x1 |-> <<bounding_boxes[i].x1, image_width>>,
                 y1 |-> <<bounding_boxes[i].y1, image_height>>,
                 x2 |-> <<bounding_boxes[i].x2, image_width>>,
                 y2 |-> <<bounding_boxes[i].y2, image_height>>]],
        metrics |->
            [num_boxes |-> Len(bounding_boxes),
             total_area |-> Sum([i \in DOMAIN bounding_boxes |->
                                   (bounding_boxes[i].x2 - bounding_boxes[i].x1)
                                   * (bounding_boxes[i].y2 - bounding_boxes[i].y1)]),
             width |-> overall_width,
             height |-> overall_height,
             aspect_ratio |-> IF overall_height > 0
                              THEN <<overall_width, overall_height>> ELSE <<0, 1>>],
        image_dimensions |-> [width |-> image_width, height |-> image_height]]

RECURSIVE ExtractLoopByPosition(_, _, _, _, _, _, _)
\* A faulty loop that numbers an element by the position of its reference.
ExtractLoopByPosition(grounding_refs, i, elements, page_number, image_width, image_height, options) ==
    IF i > Len(grounding_refs) THEN [raised |-> FALSE, elements |-> elements]
    ELSE LET coords_list == parse_coordinates(grounding_refs[i].coords)
             inner == IF coords_list = <<>> THEN [raised |-> FALSE, boxes |-> <<>>]
                      ELSE BoundingBoxes(coords_list[1], image_width, image_height, options)
         IN IF inner.raised THEN [raised |-> TRUE, elements |-> <<>>]
            ELSE IF inner.boxes = <<>>
            THEN ExtractLoopByPosition(grounding_refs, i + 1, elements,
                                       page_number, image_width, image_height, options)
            ELSE ExtractLoopByPosition(grounding_refs, i + 1,
                                       Append(elements,
                                              Element(grounding_refs[i].label, inner.boxes,
                                                      page_number, i - 1,
                                                      image_width, image_height)),
                                       page_number, image_width, image_height, options)

RECURSIVE ExtractLoopPrepend(_, _, _, _, _, _, _)
\* A faulty loop that puts each new element in front of the list.
ExtractLoopPrepend(grounding_refs, i, elements, page_number, image_width, image_height, options) ==
    IF i > Len(grounding_refs) THEN [raised |-> FALSE, elements |-> elements]
    ELSE LET coords_list == parse_coordinates(grounding_refs[i].coords)
             inner == IF coords_list = <<>> THEN [raised |-> FALSE, boxes |-> <<>>]
                      ELSE BoundingBoxes(coords_list[1], image_width, image_height, options)
         IN IF inner.raised THEN [raised |-> TRUE, elements |-> <<>>]
            ELSE IF inner.boxes = <<>>
            THEN ExtractLoopPrepend(grounding_refs, i + 1, elements,
                                    page_number, image_width, image_height, options)
            ELSE ExtractLoopPrepend(grounding_refs, i + 1,
                                    <<Element(grounding_refs[i].label, inner.boxes,
                                              page_number, Len(elements),
                                              image_width, image_height)>> \o elements,
                                    page_number, image_width, image_height, options)

RECURSIVE ExtractLoop(_, _, _, _, _, _, _)
\* The loop over grounding_refs from reference i on, with the elements
\* collected so far; element_index is Len(elements).  An exception leaves
\* the function at once: raised, and nothing is returned.
ExtractLoop(grounding_refs, i, elements, page_number, image_width, image_height, options) ==
    IF i > Len(grounding_refs) THEN [raised |-> FALSE, elements |-> elements]
    ELSE LET coords_list == parse_coordinates(grounding_refs[i].coords)
             inner == IF coords_list = <<>> THEN [raised |-> FALSE, boxes |-> <<>>]
                      ELSE BoundingBoxes(coords_list[1], image_width, image_height, options)
             element_index == Len(elements)
         IN IF inner.raised THEN [raised |-> TRUE, elements |-> <<>>]
            ELSE IF inner.boxes = <<>>
            THEN ExtractLoop(grounding_refs, i + 1, elements,
                             page_number, image_width, image_height, options)
            ELSE ExtractLoop(grounding_refs, i + 1,
                             Append(elements,
                                    Element(grounding_refs[i].label, inner.boxes,
                                            page_number, element_index,
                                            image_width, image_height)),
                             page_number, image_width, image_height, options)

\* [raised, elements]: the list returned, or raised when a TypeError
\* escapes the function.
extract_all_elements(image, model_output, page_number, extract_options) ==
    ExtractLoop(parse_grounding_references(model_output), 1, <<>>,
                page_number, image.width, image.height, extract_options)

\* ------------------------------------------------------- image_cropper.py
\* The region extract_element_content crops: the union of the element's
\* boxes, grown by padding inside the image when padding > 0.
extract_element_content(image, element, padding) ==
    LET bboxes == element.bounding_boxes
        min_x1 == SetMin({b.x1 : b \in Range(bboxes)})
        min_y1 == SetMin({b.y1 : b \in Range(bboxes)})
        max_x2 == SetMax({b.x2 : b \in Range(bboxes)})
        max_y2 == SetMax({b.y2 : b \in Range(bboxes)})
    IN IF bboxes = <<>> THEN <<>>
       ELSE IF padding > 0
       THEN <<Box(Max(0, min_x1 - padding), Max(0, min_y1 - padding),
                  Min(image.width, max_x2 + padding), Min(image.height, max_y2 + padding))>>
       ELSE <<Box(min_x1, min_y1, max_x2, max_y2)>>

\* What extract_element_content may return: image.crop on a region whose
\* right edge lies left of its left edge, or whose lower edge lies above its
\* upper edge, raises in some versions of the imaging library, and None is
\* returned then; other versions return the empty crop.
ExtractContentOutcomes(image, element, padding) ==
    LET crop == extract_element_content(image, element, padding)
    IN {crop} \cup (IF crop # <<>> /\ (crop[1].x2 < crop[1].x1 \/ crop[1].y2 < crop[1].y1)
                    THEN {<<>>} ELSE {})

\* The files crop_and_save_element writes for one element (path :> content)
\* and the path it returns (Optional).  Cropping or saving an empty region
\* raises inside the try block: nothing is written and None is returned.
\* unwritable holds the paths that cannot be written: a failing save of the
\* image leaves nothing, a failing open of the metadata file comes after the
\* image was saved; both end in the except clause, which returns None.
crop_and_save_element(image, element, output_dir, padding, save_metadata, unwritable) ==
    LET crop == extract_element_content(image, element, padding)
        image_filename == element.id \o "_" \o element.type \o ".jpg"
        metadata_filename == element.id \o "_" \o element.type \o ".json"
        image_path == output_dir \o "/" \o image_filename
    IN IF crop = <<>> \/ crop[1].x2 <= crop[1].x1 \/ crop[1].y2 <= crop[1].y1
       THEN [path |-> <<>>, files |-> <<>>]
       ELSE IF image_path \in unwritable
       THEN [path |-> <<>>, files |-> <<>>]
       ELSE IF save_metadata /\ output_dir \o "/" \o metadata_filename \in unwritable
       THEN [path |-> <<>>,
             files |-> <<[path |-> image_path,
                          content |-> [kind |-> "jpg", region |-> crop[1]]]>>]
       ELSE [path |-> <<image_path>>,
             files |->
                <<[path |-> image_path, content |-> [kind |-> "jpg", region |-> crop[1]]]>>
                \o (IF save_metadata
                    THEN <<[path |-> output_dir \o "/" \o metadata_filename,
                            content |-> [kind |-> "metadata",
                                         element_id |-> element.id,
                                         type |-> element.type,
                                         page |-> element.page,
                                         index |-> element.index,
                                         filename |-> image_filename,
                                         width |-> crop[1].x2 - crop[1].x1,
                                         height |-> crop[1].y2 - crop[1].y1,
                                         padding |-> padding]]>>
                    ELSE <<>>)]

\* A faulty batch that gives up at the first element that is not saved.
SaveAllUntilFailure(image, elements, output_dir, padding, save_metadata, unwritable) ==
    LET each == [i \in DOMAIN elements |->
                    crop_and_save_element(image, elements[i], output_dir, padding,
                                          save_metadata, unwritable)]
        failed == {i \in DOMAIN elements : each[i].path = <<>>}
        done == IF failed = {} THEN Len(elements) ELSE SetMin(failed) - 1
    IN [dirs |-> IF elements = <<>> THEN {} ELSE {output_dir},
        files |-> Flatten([i \in 1..done |-> each[i].files]),
        saved_paths |-> [i \in 1..done |-> [id |-> elements[i].id, path |-> each[i].path[1]]]]

\* save_all_elements: the directory it creates, the files written in order,
\* and saved_paths as a sequence of [id, path] assignments in order.
save_all_elements(image, elements, output_dir, padding, save_metadata, unwritable) ==
    LET each == [i \in DOMAIN elements |->
                    crop_and_save_element(image, elements[i], output_dir, padding,
                                          save_metadata, unwritable)]
    IN [dirs |-> IF elements = <<>> THEN {} ELSE {output_dir},
        files |-> Flatten([i \in DOMAIN elements |-> each[i].files]),
        saved_paths |-> Flatten([i \in DOMAIN elements |->
                                    IF each[i].path = <<>> THEN <<>>
                                    ELSE <<[id |-> elements[i].id, path |-> each[i].path[1]]>>])]

\* ---------------------------------------------------- overlay_generator.py
\* The type labels of the model in the order sorted() puts them.
SortedLabels == <<"all_types", "figure", "image", "sub title", "table", "text", "title">>

\* sorted(set(...)) of type labels
Sorted(types) == SelectSeq(SortedLabels, LAMBDA t : t \in types)

\* d[key] = value on a dict kept as the sequence of its entries in insertion
\* order: the value of a key already present is replaced in place.
DictSet(d, key, value) ==
    IF \E i \in DOMAIN d : d[i].key = key
    THEN [i \in DOMAIN d |-> IF d[i].key = key THEN [key |-> key, path |-> value] ELSE d[i]]
    ELSE Append(d, [key |-> key, path |-> value])

\* An overlay image file showing the elements of the given types.
OverlayFile(output_dir, filename, types) ==
    [path |-> output_dir \o "/" \o filename, content |-> [kind |-> "overlay", types |-> types]]

\* A faulty generator that renders and saves the combined overlay of an empty
\* element list too.
GenerateTypeOverlaysAlways(image, elements, output_dir, unwritable) ==
    LET element_types == Sorted({e.type : e \in Range(elements)})
        all_types_path == output_dir \o "/all_types_colored.jpg"
    IN [raised |-> "",
        dirs |-> {output_dir},
        files |-> {OverlayFile(output_dir, element_types[i] \o "_only.jpg", {element_types[i]}) :
                      i \in DOMAIN element_types}
                  \cup {OverlayFile(output_dir, "all_types_colored.jpg", Range(element_types))},
        saved_overlays |->
            DictSet([i \in DOMAIN element_types |->
                        [key |-> element_types[i],
                         path |-> output_dir \o "/" \o element_types[i] \o "_only.jpg"]],
                    "all_types", all_types_path)]

\* generate_type_overlays: one overlay per element type in sorted order, then
\* the combined overlay; nothing but the directory when there are no
\* elements.  unwritable holds the paths whose save raises OSError: the
\* exception leaves the function, and the overlays saved before it stay on
\* disk.  [raised, dirs, files, saved_overlays], saved_overlays being the
\* dict returned.
generate_type_overlays(image, elements, output_dir, unwritable) ==
    LET element_types == Sorted({e.type : e \in Range(elements)})
        failed == {i \in DOMAIN element_types :
                      output_dir \o "/" \o element_types[i] \o "_only.jpg" \in unwritable}
        done == IF failed = {} THEN Len(element_types) ELSE SetMin(failed) - 1
        per_type_files ==
            {OverlayFile(output_dir, element_types[i] \o "_only.jpg", {element_types[i]}) :
                i \in 1..done}
        all_types_path == output_dir \o "/all_types_colored.jpg"
    IN IF elements = <<>>
       THEN [raised |-> "", dirs |-> {output_dir}, files |-> {}, saved_overlays |-> <<>>]
       ELSE IF failed # {} \/ all_types_path \in unwritable
       THEN [raised |-> "OSError", dirs |-> {output_dir}, files |-> per_type_files,
             saved_overlays |-> <<>>]
       ELSE [raised |-> "", dirs |-> {output_dir},
             files |-> per_type_files
                       \cup {OverlayFile(output_dir, "all_types_colored.jpg",
                                         Range(element_types))},
             saved_overlays |->
                 DictSet([i \in 1..done |->
                             [key |-> element_types[i],
                              path |-> output_dir \o "/" \o element_types[i] \o "_only.jpg"]],
                         "all_types", all_types_path)]

\* ---------------------------------------------------------------- image.py
\* What one call of model.infer does, as seen by the caller: the value it
\* returns (Optional markdown), and the files result.mmd and result_raw.txt
\* it leaves in output_path (Optional contents).
Outcome(result, result_mmd, result_raw) ==
    [result |-> result, result_mmd |-> result_mmd, result_raw |-> result_raw]

\* The files of the outcome, written into output_dir.
InferFiles(output_dir, outcome) ==
    (IF outcome.result_mmd = <<>> THEN {}
     ELSE {[path |-> output_dir \o "/result.mmd", content |-> [kind |-> "text", tokens |-> outcome.result_mmd[1]]]})
    \cup (IF outcome.result_raw = <<>> THEN {}
          ELSE {[path |-> output_dir \o "/result_raw.txt", content |-> [kind |-> "text", tokens |-> outcome.result_raw[1]]]})

\* process_image: [raised, markdown].
process_image(outcome) ==
    IF outcome.result # <<>> THEN [raised |-> "", markdown |-> outcome.result[1]]
    ELSE IF outcome.result_mmd # <<>> THEN [raised |-> "", markdown |-> outcome.result_mmd[1]]
    ELSE [raised |-> "RuntimeError: Model inference did not return any output.",
          markdown |-> <<>>]

\* The size of every page image.
PageImage == [width |-> 200, height |-> 200]

\* ... the part of process_image_enhanced after the elements are extracted
EnhancedResult(markdown, raw_output, elements, saved, overlays, infer_files) ==
    [raised |-> "",
     result |-> [markdown |-> markdown,
                 elements |-> elements,
                 raw_output |-> raw_output,
                 element_paths |-> saved.saved_paths,
                 overlay_paths |-> overlays.saved_overlays],
     dirs |-> saved.dirs \cup overlays.dirs,
     files |-> infer_files \cup Range(saved.files) \cup overlays.files]

NoResult(raised, infer_files) ==
    [raised |-> raised, result |-> <<>>, dirs |-> {}, files |-> infer_files]

NotSaved == [dirs |-> {}, files |-> <<>>, saved_paths |-> <<>>]
NoOverlays == [dirs |-> {}, files |-> {}, saved_overlays |-> <<>>]

\* ... the part after the raw output is read
EnhancedExtract(markdown, raw_output, extracted, output_dir, generate_overlays, save_elements, infer_files) ==
    IF extracted.raised THEN NoResult("TypeError: object of type 'int' has no len()", infer_files)
    ELSE EnhancedResult(markdown, raw_output, extracted.elements,
                        IF save_elements
                        THEN save_all_elements(PageImage, extracted.elements,
                                               output_dir \o "/elements", 0, TRUE, {})
                        ELSE NotSaved,
                        IF generate_overlays
                        THEN generate_type_overlays(PageImage, extracted.elements,
                                                    output_dir \o "/overlays", {})
                        ELSE NoOverlays,
                        infer_files)

\* A faulty variant that reads a missing result_raw.txt as an empty file.
EnhancedRawLenient(processed, output_dir, outcome, options, generate_overlays, save_elements) ==
    IF processed.raised # "" THEN NoResult(processed.raised, InferFiles(output_dir, outcome))
    ELSE LET raw_output == IF outcome.result_raw = <<>> THEN <<>> ELSE outcome.result_raw[1]
         IN EnhancedExtract(processed.markdown, raw_output,
                            extract_all_elements(PageImage, raw_output, 1, options),
                            output_dir, generate_overlays, save_elements,
                            InferFiles(output_dir, outcome))

\* ... the part after process_image returned
EnhancedRaw(processed, output_dir, outcome, options, generate_overlays, save_elements) ==
    IF processed.raised # "" THEN NoResult(processed.raised, InferFiles(output_dir, outcome))
    ELSE IF outcome.result_raw = <<>>
    THEN NoResult("RuntimeError: Raw output file not found", InferFiles(output_dir, outcome))
    ELSE EnhancedExtract(processed.markdown, outcome.result_raw[1],
                         extract_all_elements(PageImage, outcome.result_raw[1], 1, options),
                         output_dir, generate_overlays, save_elements,
                         InferFiles(output_dir, outcome))

\* process_image_enhanced on the page image image_path, with the outcome of
\* the model's inference: [raised, result, dirs, files], where raised is ""
\* or the exception that leaves the function, result the dict returned, and
\* dirs and files what was created below output_dir.
process_image_enhanced(image_path, output_dir, outcome, options, generate_overlays, save_elements) ==
    EnhancedRaw(process_image(outcome), output_dir, outcome, options,
                generate_overlays, save_elements)

\* ------------------------------------------------------------------ pdf.py
\* pdf_to_images: the image file of the page at index page_index.
ImageName(page_index) == "pages/page_" \o Pad4(page_index + 1) \o ".png"

\* An index of a Python slice, brought into 0..len.
SliceIndex(idx, len) == IF idx < 0 THEN Max(0, idx + len) ELSE Min(idx, len)

\* Python's s[start_idx:end_idx].
PySlice(s, start_idx, end_idx) ==
    LET lo == SliceIndex(start_idx, Len(s))
        hi == SliceIndex(end_idx, Len(s))
    IN IF lo < hi THEN SubSeq(s, lo + 1, hi) ELSE <<>>

\* The page range filter of process_pdf_enhanced.
RangeFilter(paths, start, end) ==
    IF start # <<>> \/ end # <<>>
    THEN PySlice(paths,
                 IF start # <<>> THEN start[1] - 1 ELSE 0,
                 IF end # <<>> THEN end[1] ELSE Len(paths))
    ELSE paths

\* A faulty enumerate that always starts at 1.
EnumerateFromOne(start) == 1

\* The start of enumerate: start_page if start_page else 1.
EnumerateStart(start) == IF start # <<>> /\ start[1] # 0 THEN start[1] ELSE 1

PageDir(index) == "page_" \o Pad4(index)

\* The files on disk after the files of new are written.
WriteFiles(old, new) == {f \in old : f.path \notin {g.path : g \in new}} \cup new

Whitespace == {" ", "\n", "\t"}

RECURSIVE LStrip(_)
LStrip(s) == IF s # <<>> /\ Head(s) \in Whitespace THEN LStrip(Tail(s)) ELSE s

RECURSIVE RStrip(_)
RStrip(s) ==
    IF s # <<>> /\ s[Len(s)] \in Whitespace THEN RStrip(SubSeq(s, 1, Len(s) - 1)) ELSE s

\* str.strip() on a text whose whitespace characters are tokens of their own.
Strip(s) == RStrip(LStrip(s))

Marker(idx) == "<!-- Page " \o ToString(idx) \o " -->"

\* One term of the join: the marker, then the content when there is any.
PageBlock(idx, content) ==
    IF content # <<>> THEN <<Marker(idx), "\n">> \o content ELSE <<Marker(idx)>>

RECURSIVE JoinBlocks(_)
\* "\n\n".join(blocks)
JoinBlocks(blocks) ==
    IF blocks = <<>> THEN <<>>
    ELSE IF Len(blocks) = 1 THEN blocks[1]
    ELSE blocks[1] \o <<"\n\n">> \o JoinBlocks(Tail(blocks))

\* combined_markdown: enumerate(page_markdowns, start=1) numbers the blocks.
CombinedMarkdown(markdowns) ==
    JoinBlocks([k \in DOMAIN markdowns |-> PageBlock(1 + (k - 1), markdowns[k])])

PdfPath == "/data/document.pdf"
PdfName == "document.pdf"
PdfStem == "document"

\* document_structure
DocumentStructure(results) ==
    [document_metadata |->
        [source_file |-> PdfPath,
         filename |-> PdfName,
         num_pages |-> Len(results),
         total_elements |-> Len(Flatten([k \in DOMAIN results |-> results[k].elements]))],
     pages |->
        [k \in DOMAIN results |->
            [page |-> results[k].page_number,
             num_elements |-> Len(results[k].elements),
             element_types |-> {e.type : e \in Range(results[k].elements)}]]]

\* The elements.json files written after the structure.
ElementsFiles(results) ==
    {[path |-> PageDir(results[k].page_number) \o "/elements.json",
      content |-> [kind |-> "json", elements |-> results[k].elements]] : k \in DOMAIN results}

\* ------------------------------------------------ api/models.py, main.py
\* Validation of a dict as DocumentStructure: every required field of
\* DocumentMetadata and of each PageStructure is present (extra keys are
\* ignored).
ValidDocumentStructure(structure) ==
    /\ {"filename", "num_pages", "total_elements", "element_counts"}
          \subseteq DOMAIN structure.document_metadata
    /\ \A k \in DOMAIN structure.pages :
          {"page_number", "elements", "element_counts"} \subseteq DOMAIN structure.pages[k]

\* PDFEnhancedResponse, without processing_time and output_files.
PDFEnhancedResponse(success, text, structure, num_pages, pages_processed, error) ==
    [success |-> success, text |-> text, structure |-> structure, num_pages |-> num_pages,
     pages_processed |-> pages_processed, error |-> error]

\* The response of the except clause of the endpoint.
ErrorResponse(filename, error) ==
    PDFEnhancedResponse(FALSE, <<>>,
                        [document_metadata |-> [filename |-> filename, num_pages |-> 0,
                                                total_elements |-> 0, element_counts |-> <<>>],
                         pages |-> <<>>],
                        0, <<>>, <<error>>)

\* process_pdf_enhanced_endpoint after process_pdf_enhanced has returned
\* (pipeline = <<result>>) or raised (pipeline = <<>>, exception): building
\* PDFEnhancedResponse validates result['structure'], and a ValidationError
\* is caught by the except clause like any other exception.
process_pdf_enhanced_endpoint(filename, pipeline, exception) ==
    IF pipeline = <<>> THEN ErrorResponse(filename, exception)
    ELSE IF ~ValidDocumentStructure(pipeline[1].structure)
    THEN ErrorResponse(filename, "ValidationError: structure: field required")
    ELSE PDFEnhancedResponse(
             TRUE, pipeline[1].markdown, pipeline[1].structure,
             pipeline[1].structure.document_metadata.num_pages,
             [i \in 1..pipeline[1].structure.document_metadata.num_pages |-> i],
             <<>>)

\* ------------------------------------------------------------------ state
VARIABLES
    \* extract_all_elements, called on one raw output
    model_output,     \* the raw text the OCR model has written so far (tokens)
    segments,         \* number of segments written
    image,            \* [width, height] of the source image
    page_number,      \* the page_number argument
    extract_options,  \* the extract_options argument, defaults filled in
    extract_pc,       \* "idle", "writing", "returned" or "raised"
    elements,         \* the list returned
    \* process_pdf_enhanced, called on one PDF
    page_count,       \* number of pages of the PDF
    start_page,       \* Optional int
    end_page,         \* Optional int
    generate_overlays,
    save_elements,
    pc,               \* "idle", "start", "loop", "done" or "error"
    raised,           \* the exception that left the function, "" if none
    image_paths,      \* the page images to process, after the range filter
    page_results,
    page_markdowns,
    dirs,             \* directories below output_root
    files,            \* files below output_root: [path, content]
    model_calls,      \* the calls of model.infer: [image_file, outcome]
    returned,         \* Optional dict returned
    \* one call of a function of the extraction package
    applied,          \* the function called, "" before the call
    arguments,        \* its arguments
    result,           \* what it returned
    \* one PerformanceTracker and the callers that share it
    tracker,          \* [metrics, start_time]: the tracker's attributes
    now,              \* what time.time() returns
    started,          \* start() was called since construction or the last successful end()
    call,             \* the last call of a method of the tracker
    client,           \* per client: its place in its start()-then-end() pair
    overlapped        \* a client called start() while another was between start() and end()

extract_vars == <<model_output, segments, image, page_number, extract_pc, elements>>

pdf_vars == <<page_count, start_page, end_page, generate_overlays, save_elements, pc, raised,
              image_paths, page_results, page_markdowns, dirs, files, model_calls, returned>>

function_vars == <<applied, arguments, result>>

tracker_vars == <<tracker, now, started, call, client, overlapped>>

vars == <<extract_vars, extract_options, pdf_vars, function_vars, tracker_vars>>

\* ----------------------------------------------------- raw model outputs
Reference(label, coords) == <<REF_OPEN, label, REF_CLOSE, DET_OPEN, coords, DET_CLOSE>>

\* What the OCR model may write next: a grounding reference, plain text, or
\* a reference tag that no detection tag follows.
Segments ==
    {Reference("title", "[[0,0,100,50]]"),
     Reference("text", "[[-50,0,500,500],[100,100,500,500]]"),
     Reference("sub title", "[[0,0,40,999]]"),
     Reference("title", "[[63,0,252,999],[500,500,100,100]]"),
     Reference("image", "[[1,2,3],[900,900,1200,1200]]"),
     Reference("title", "[[100,100,100,500]]"),
     Reference("table", "[1,2,3,4]"),
     Reference("table", "[[0,0,100"),
     Reference("text", "(1,2,3,4)"),
     <<"Some text\n">>,
     <<REF_OPEN, "figure", REF_CLOSE, "\n">>}

Options ==
    {[padding |-> 0, min_width |-> w, min_height |-> w, validate_strict |-> s] :
        w \in {0, 10}, s \in BOOLEAN}

\* The calls of extract_all_elements that are explored.
ExtractCalls ==
    {[image |-> [width |-> 200, height |-> 200], page_number |-> 1, options |-> o] :
        o \in Options}
    \cup {[image |-> [width |-> 111, height |-> 222], page_number |-> 12,
           options |-> DefaultOptions]}

\* No call of process_pdf_enhanced.
PdfIdle ==
    /\ page_count = 0
    /\ start_page = <<>>
    /\ end_page = <<>>
    /\ generate_overlays = TRUE
    /\ save_elements = TRUE
    /\ pc = "idle"
    /\ raised = ""
    /\ image_paths = <<>>
    /\ page_results = <<>>
    /\ page_markdowns = <<>>
    /\ dirs = {}
    /\ files = {}
    /\ model_calls = <<>>
    /\ returned = <<>>

\* PerformanceTracker(): no metrics, no operation being timed.
PerformanceTracker == [metrics |-> <<>>, start_time |-> <<>>]

\* A call of a method of the tracker: the method, the exception it raised
\* ("" if none), the value it returned (Optional), the tracker before the
\* call, whether a start() was pending before it, and the method and
\* exception of the call before it.
Call(op, exception, value) ==
    [op |-> op, raised |-> exception, value |-> value, before |-> tracker,
     was_started |-> started, prev_op |-> call.op, prev_raised |-> call.raised]

NoCall ==
    [op |-> "", raised |-> "", value |-> <<>>, before |-> PerformanceTracker,
     was_started |-> FALSE, prev_op |-> "", prev_raised |-> ""]

\* No tracker in use.
TrackerIdle ==
    /\ tracker = PerformanceTracker
    /\ now = 0
    /\ started = FALSE
    /\ call = NoCall
    /\ client = <<>>
    /\ overlapped = FALSE

\* No function called on its own.
FunctionsIdle ==
    /\ applied = ""
    /\ arguments = <<>>
    /\ result = <<>>

\* No call of extract_all_elements on its own.
ExtractIdle ==
    /\ model_output = <<>>
    /\ segments = 0
    /\ image = PageImage
    /\ page_number = 1
    /\ extract_pc = "idle"
    /\ elements = <<>>

\* ------------------------------------------------- extract_all_elements
ExtractInit ==
    /\ model_output = <<>>
    /\ segments = 0
    /\ \E c \in ExtractCalls :
          /\ image = c.image
          /\ page_number = c.page_number
          /\ extract_options = c.options
    /\ extract_pc = "writing"
    /\ elements = <<>>
    /\ PdfIdle
    /\ FunctionsIdle
    /\ TrackerIdle

\* The OCR model writes one more segment of raw output.
WriteSegment ==
    /\ extract_pc = "writing"
    /\ segments < MaxSegs
    /\ \E s \in Segments : model_output' = model_output \o s
    /\ segments' = segments + 1
    /\ UNCHANGED <<image, page_number, extract_options, extract_pc, elements, pdf_vars, function_vars, tracker_vars>>

\* extract_all_elements(image, model_output, page_number, extract_options)
ExtractAll ==
    /\ extract_pc = "writing"
    /\ LET r == extract_all_elements(image, model_output, page_number, extract_options)
       IN /\ extract_pc' = IF r.raised THEN "raised" ELSE "returned"
          /\ elements' = r.elements
    /\ UNCHANGED <<model_output, segments, image, page_number, extract_options, pdf_vars, function_vars, tracker_vars>>

\* save_all_elements(image, elements, "elements", padding, save_metadata) on
\* the elements extract_all_elements returned, every file being writable.
SaveAll ==
    /\ extract_pc = "returned"
    /\ applied = ""
    /\ \E padding \in {0, 10}, save_metadata \in BOOLEAN :
          LET r == save_all_elements(image, elements, "elements", padding, save_metadata, {})
          IN /\ arguments' = [padding |-> padding, save_metadata |-> save_metadata]
             /\ result' = r.saved_paths
             /\ dirs' = dirs \cup r.dirs
             /\ files' = WriteFiles(files, Range(r.files))
    /\ applied' = "save_all_elements"
    /\ UNCHANGED <<extract_vars, extract_options, page_count, start_page, end_page,
                   generate_overlays, save_elements, pc, raised, image_paths, page_results,
                   page_markdowns, model_calls, returned, tracker_vars>>

ExtractNext == WriteSegment \/ ExtractAll \/ SaveAll

SpecExtract == ExtractInit /\ [][ExtractNext]_vars

\* ------------------------------------------------- process_pdf_enhanced
\* The page markdown and raw outputs the OCR model may produce.
TitleRef == Reference("title", "[[0,0,100,50]]")
TextRef == Reference("text", "[[-50,0,500,500],[100,100,500,500]]")
FlatRef == Reference("table", "[1,2,3,4]")

PageOutcomes ==
    {\* a page with two elements
     Outcome(<<>>, <<<<"# Title", "\n", "\n", "Body", "\n">>>>,
             <<TitleRef \o <<"\n# Title\n\n">> \o TextRef \o <<"\nBody\n">>>>),
     \* a page with one element, the markdown returned by the call
     Outcome(<<<<"\n", "# Title">>>>, <<>>, <<TitleRef \o <<"\n# Title">>>>),
     \* an empty page
     Outcome(<<>>, <<<<" ", "\n">>>>, <<<<>>>>),
     \* a box that is a flat list of numbers
     Outcome(<<>>, <<<<"Table">>>>, <<FlatRef \o <<"\nTable">>>>),
     \* no result_raw.txt
     Outcome(<<>>, <<<<"Body">>>>, <<>>),
     \* no output at all
     Outcome(<<>>, <<>>, <<>>)}

PageBounds == {<<>>} \cup {<<k>> : k \in (-1)..(MaxPages + 1)}

Init ==
    /\ ExtractIdle
    /\ FunctionsIdle
    /\ TrackerIdle
    /\ extract_options = DefaultOptions
    /\ page_count \in 0..MaxPages
    /\ start_page \in PageBounds
    /\ end_page \in PageBounds
    /\ generate_overlays \in BOOLEAN
    /\ save_elements \in BOOLEAN
    /\ pc = "start"
    /\ raised = ""
    /\ image_paths = <<>>
    /\ page_results = <<>>
    /\ page_markdowns = <<>>
    /\ dirs = {}
    /\ files = {}
    /\ model_calls = <<>>
    /\ returned = <<>>

\* process_pdf_enhanced up to the loop: convert the PDF to page images and
\* apply the page range filter.
Convert ==
    /\ pc = "start"
    /\ LET converted == [i \in 1..page_count |-> ImageName(i - 1)]
           filtered == RangeFilter(converted, start_page, end_page)
       IN /\ dirs' = dirs \cup {"pages"}
          /\ files' = WriteFiles(files, {[path |-> converted[i],
                                          content |-> [kind |-> "png", page_index |-> i - 1]] :
                                            i \in DOMAIN converted})
          /\ IF converted = <<>>
             THEN /\ pc' = "error"
                  /\ raised' = "ValueError: No pages found in PDF"
                  /\ image_paths' = converted
             ELSE IF filtered = <<>>
             THEN /\ pc' = "error"
                  /\ raised' = "ValueError: No pages in range"
                  /\ image_paths' = filtered
             ELSE /\ pc' = "loop"
                  /\ raised' = raised
                  /\ image_paths' = filtered
    /\ UNCHANGED <<page_count, start_page, end_page, generate_overlays, save_elements,
                   page_results, page_markdowns, model_calls, returned,
                   extract_vars, extract_options, function_vars, tracker_vars>>

\* One iteration of the loop over the page images.
ProcessPage ==
    /\ pc = "loop"
    /\ Len(page_results) < Len(image_paths)
    /\ \E outcome \in PageOutcomes :
          LET k == Len(page_results) + 1
              index == EnumerateStart(start_page) + (k - 1)
              image_path == image_paths[k]
              page_output_dir == PageDir(index)
              r == process_image_enhanced(image_path, page_output_dir, outcome,
                                          extract_options, generate_overlays, save_elements)
          IN /\ dirs' = dirs \cup {page_output_dir} \cup r.dirs
             /\ files' = WriteFiles(files, r.files)
             /\ model_calls' = Append(model_calls,
                                      [image_file |-> image_path, outcome |-> outcome])
             /\ IF r.raised # ""
                THEN /\ pc' = "error"
                     /\ raised' = r.raised
                     /\ UNCHANGED <<page_results, page_markdowns>>
                ELSE /\ pc' = pc
                     /\ raised' = raised
                     /\ page_results' =
                           Append(page_results,
                                  [page_number |-> index, image_path |-> image_path]
                                  @@ r.result)
                     /\ page_markdowns' = Append(page_markdowns, Strip(r.result.markdown))
    /\ UNCHANGED <<page_count, start_page, end_page, generate_overlays, save_elements,
                   image_paths, returned, extract_vars, extract_options, function_vars, tracker_vars>>

\* process_pdf_enhanced after the loop: the combined markdown, the document
\* structure and the elements of every page are written, and the result is
\* returned.
Finish ==
    /\ pc = "loop"
    /\ Len(page_results) = Len(image_paths)
    /\ LET combined_markdown == CombinedMarkdown(page_markdowns)
           document_structure == DocumentStructure(page_results)
       IN /\ files' = WriteFiles(
                          WriteFiles(
                              WriteFiles(files,
                                         {[path |-> PdfStem \o ".md",
                                           content |-> [kind |-> "text",
                                                        tokens |-> combined_markdown]]}),
                              {[path |-> "document_structure.json",
                                content |-> [kind |-> "structure",
                                             structure |-> document_structure]]}),
                          ElementsFiles(page_results))
          /\ returned' = <<[markdown |-> combined_markdown,
                            pages |-> page_results,
                            structure |-> document_structure,
                            output_dir |-> "."]>>
    /\ pc' = "done"
    /\ UNCHANGED <<page_count, start_page, end_page, generate_overlays, save_elements,
                   raised, image_paths, page_results, page_markdowns, dirs, model_calls,
                   extract_vars, extract_options, function_vars, tracker_vars>>

\* The enhanced-PDF endpoint answers the request it called
\* process_pdf_enhanced for.
Respond ==
    /\ pc \in {"done", "error"}
    /\ applied = ""
    /\ applied' = "process_pdf_enhanced_endpoint"
    /\ arguments' = [filename |-> PdfName]
    /\ result' = process_pdf_enhanced_endpoint(PdfName, returned, raised)
    /\ UNCHANGED <<extract_vars, extract_options, pdf_vars, tracker_vars>>

Next == Convert \/ ProcessPage \/ Finish \/ Respond

Spec == Init /\ [][Next]_vars

\* ------------------------------------------- functions called on their own
FunctionsInit ==
    /\ FunctionsIdle
    /\ TrackerIdle
    /\ ExtractIdle
    /\ extract_options = DefaultOptions
    /\ PdfIdle

\* The coordinate literals parse_coordinates is called on.
CoordLiterals ==
    {"[[0,0,100,50]]", "[[0,0,40,999]]", "[[63,0,252,999],[500,500,100,100]]",
     "[[-50,0,500,500],[100,100,500,500]]", "[[1,2,3],[900,900,1200,1200]]",
     "[[100,100,100,500]]", "[1,2,3,4]", "[[2*5,0,50+50,50]]", "(1,2,3,4)",
     "[[0,0,100", "abc"}

\* parse_coordinates(coords_str)
ParseCoordinates ==
    /\ applied = ""
    /\ \E coords_str \in CoordLiterals :
          /\ arguments' = [coords_str |-> coords_str]
          /\ result' = parse_coordinates(coords_str)
    /\ applied' = "parse_coordinates"
    /\ UNCHANGED <<extract_vars, extract_options, pdf_vars, tracker_vars>>

\* The boxes, image sizes and paddings the geometry functions are called on.
Coords == (-1)..MaxCoord
Boxes == {Box(x1, y1, x2, y2) : x1 \in Coords, y1 \in Coords, x2 \in Coords, y2 \in Coords}
SmallBoxes == {Box(x1, y1, x2, y2) : x1 \in 0..2, y1 \in 0..2, x2 \in 0..2, y2 \in 0..2}
ImageSizes == {[width |-> 0, height |-> 0], [width |-> 2, height |-> 2],
               [width |-> 2, height |-> 1]}
Paddings == 0..1

\* The dicts validate_bbox is called on: a box, a box without one of its
\* keys, a box with None under one of its keys, a box with a NaN under one of
\* its keys.
Dicts ==
    {[fields |-> b, missing |-> {}, malformed |-> {}, nan |-> {}] : b \in Boxes}
    \cup {[fields |-> b, missing |-> {k}, malformed |-> {}, nan |-> {}] :
             b \in {Box(0, 0, 1, 1), Box(1, 1, 0, 0)}, k \in {"x1", "y2"}}
    \cup {[fields |-> b, missing |-> {}, malformed |-> {k}, nan |-> {}] :
             b \in {Box(0, 0, 1, 1), Box(1, 1, 0, 0), Box(0, 1, 1, 0)},
             k \in {"x1", "y1", "x2", "y2"}}
    \cup {[fields |-> b, missing |-> {}, malformed |-> {}, nan |-> {k}] :
             b \in {Box(0, 0, 1, 1), Box(1, 1, 0, 0), Box(-1, 0, -1, 1)},
             k \in {"x1", "y1", "x2", "y2"}}

\* validate_bbox(bbox, image_width, image_height, allow_out_of_bounds)
Validate ==
    /\ applied = ""
    /\ \E d \in Dicts, size \in ImageSizes, allow_out_of_bounds \in BOOLEAN :
          /\ arguments' = [bbox |-> d, image |-> size,
                           allow_out_of_bounds |-> allow_out_of_bounds]
          /\ result' = TryValidate(d, size.width, size.height, allow_out_of_bounds)
    /\ applied' = "validate_bbox"
    /\ UNCHANGED <<extract_vars, extract_options, pdf_vars, tracker_vars>>

\* add_padding(bbox, padding, image_width, image_height)
AddPadding ==
    /\ applied = ""
    /\ \E bbox \in Boxes, size \in ImageSizes, padding \in Paddings :
          /\ arguments' = [bbox |-> bbox, image |-> size, padding |-> padding]
          /\ result' = add_padding(bbox, padding, size.width, size.height)
    /\ applied' = "add_padding"
    /\ UNCHANGED <<extract_vars, extract_options, pdf_vars, tracker_vars>>

\* clip_bbox_to_image(bbox, image_width, image_height)
Clip ==
    /\ applied = ""
    /\ \E bbox \in Boxes, size \in ImageSizes :
          /\ arguments' = [bbox |-> bbox, image |-> size]
          /\ result' = clip_bbox_to_image(bbox, size.width, size.height)
    /\ applied' = "clip_bbox_to_image"
    /\ UNCHANGED <<extract_vars, extract_options, pdf_vars, tracker_vars>>

\* check_overlap(bbox1, bbox2)
CheckOverlap ==
    /\ applied = ""
    /\ \E bbox1 \in Boxes, bbox2 \in SmallBoxes :
          /\ arguments' = [bbox1 |-> bbox1, bbox2 |-> bbox2]
          /\ result' = check_overlap(bbox1, bbox2)
    /\ applied' = "check_overlap"
    /\ UNCHANGED <<extract_vars, extract_options, pdf_vars, tracker_vars>>

\* extract_element_content(image, element, padding)
ExtractContent ==
    /\ applied = ""
    /\ \E bbox \in Boxes, size \in ImageSizes, padding \in Paddings :
          \E bounding_boxes \in {<<>>, <<bbox>>, <<bbox, Box(0, 0, 1, 1)>>} :
             LET element == [id |-> "page_0001_elem_0000", bounding_boxes |-> bounding_boxes]
             IN /\ arguments' = [image |-> size, element |-> element, padding |-> padding]
                /\ result' \in ExtractContentOutcomes(size, element, padding)
    /\ applied' = "extract_element_content"
    /\ UNCHANGED <<extract_vars, extract_options, pdf_vars, tracker_vars>>

\* The element lists overlays are generated for; only the type of an element
\* decides which overlays are written.
RECURSIVE TypeLists(_)
TypeLists(n) ==
    IF n = 0 THEN {<<>>}
    ELSE TypeLists(n - 1)
         \cup {Append(s, label) : s \in {l \in TypeLists(n - 1) : Len(l) = n - 1},
                                  label \in {"title", "text", "all_types"}}

OverlayElements(types) ==
    [i \in DOMAIN types |-> [id |-> ElementId(1, i - 1), type |-> types[i]]]

\* What lies below the output directory before the call: nothing, the empty
\* directory, or the overlays of an earlier run.
OverlayDisks ==
    {[dirs |-> {}, files |-> {}],
     [dirs |-> {"overlays"}, files |-> {}],
     [dirs |-> {"overlays"},
      files |-> {OverlayFile("overlays", "title_only.jpg", {"earlier"}),
                 OverlayFile("overlays", "all_types_colored.jpg", {"earlier"})}]}

OverlayPaths ==
    {"overlays/title_only.jpg", "overlays/text_only.jpg", "overlays/all_types_only.jpg",
     "overlays/all_types_colored.jpg"}

\* generate_type_overlays(image, elements, "overlays") on a disk where the
\* saves of the paths in unwritable fail.
GenerateTypeOverlays ==
    /\ applied = ""
    /\ \E types \in TypeLists(MaxElements), disk \in OverlayDisks,
          unwritable \in SUBSET OverlayPaths :
          LET r == generate_type_overlays(PageImage, OverlayElements(types), "overlays",
                                          unwritable)
          IN /\ arguments' = [elements |-> OverlayElements(types), disk |-> disk,
                              unwritable |-> unwritable]
             /\ result' = [raised |-> r.raised, saved_overlays |-> r.saved_overlays]
             /\ dirs' = disk.dirs \cup r.dirs
             /\ files' = WriteFiles(disk.files, r.files)
    /\ applied' = "generate_type_overlays"
    /\ UNCHANGED <<extract_vars, extract_options, page_count, start_page, end_page,
                   generate_overlays, save_elements, pc, raised, image_paths, page_results,
                   page_markdowns, model_calls, returned, tracker_vars>>

\* The element lists save_all_elements is called on: each element has one
\* box, a region of the page or an empty region.
RECURSIVE RegionLists(_)
RegionLists(n) ==
    IF n = 0 THEN {<<>>}
    ELSE RegionLists(n - 1)
         \cup {Append(s, bbox) : s \in {l \in RegionLists(n - 1) : Len(l) = n - 1},
                                 bbox \in {Box(0, 0, 100, 50), Box(20, 20, 20, 100)}}

SaveElements(regions) ==
    [i \in DOMAIN regions |->
        [id |-> ElementId(1, i - 1), type |-> "title", page |-> 1, index |-> i - 1,
         bounding_boxes |-> <<regions[i]>>]]

\* The image and metadata files of the elements.
ElementPaths(saved) ==
    {"elements/" \o saved[i].id \o "_" \o saved[i].type \o ".jpg" : i \in DOMAIN saved}
    \cup {"elements/" \o saved[i].id \o "_" \o saved[i].type \o ".json" : i \in DOMAIN saved}

\* save_all_elements(image, elements, "elements", 0, save_metadata) on an
\* empty disk where the paths in unwritable cannot be written.
SaveAllElements ==
    /\ applied = ""
    /\ \E regions \in RegionLists(MaxElements), save_metadata \in BOOLEAN :
          \E unwritable \in SUBSET ElementPaths(SaveElements(regions)) :
             LET r == save_all_elements(PageImage, SaveElements(regions), "elements", 0,
                                        save_metadata, unwritable)
             IN /\ arguments' = [elements |-> SaveElements(regions),
                                 save_metadata |-> save_metadata,
                                 unwritable |-> unwritable]
                /\ result' = r.saved_paths
                /\ dirs' = dirs \cup r.dirs
                /\ files' = WriteFiles(files, Range(r.files))
    /\ applied' = "save_all_elements"
    /\ UNCHANGED <<extract_vars, extract_options, page_count, start_page, end_page,
                   generate_overlays, save_elements, pc, raised, image_paths, page_results,
                   page_markdowns, model_calls, returned, tracker_vars>>

FunctionsNext ==
    \/ ParseCoordinates
    \/ SaveAllElements
    \/ GenerateTypeOverlays
    \/ Validate
    \/ AddPadding
    \/ Clip
    \/ CheckOverlap
    \/ ExtractContent

SpecFunctions == FunctionsInit /\ [][FunctionsNext]_vars

\* --------------------------------------------------- performance_metrics.py
\* A float kept as the fraction <<numerator, denominator>>, denominator > 0.
FracLess(a, b) == a[1] * b[2] < b[1] * a[2]
FracAdd(a, b) == <<a[1] * b[2] + b[1] * a[2], a[2] * b[2]>>

RECURSIVE FracSum(_)
FracSum(s) == IF s = <<>> THEN <<0, 1>> ELSE FracAdd(Head(s), FracSum(Tail(s)))

\* min() and max() of a list of fractions: the first least, the first greatest
FracMin(s) == s[CHOOSE i \in DOMAIN s : /\ \A j \in DOMAIN s : ~FracLess(s[j], s[i])
                                        /\ \A j \in 1..(i - 1) : FracLess(s[i], s[j])]
FracMax(s) == s[CHOOSE i \in DOMAIN s : /\ \A j \in DOMAIN s : ~FracLess(s[i], s[j])
                                        /\ \A j \in 1..(i - 1) : FracLess(s[j], s[i])]

PerformanceMetrics(total_time, tokens_generated, tokens_per_second, input_tokens, total_tokens_processed) ==
    [total_time |-> total_time,
     tokens_generated |-> tokens_generated,
     tokens_per_second |-> tokens_per_second,
     input_tokens |-> input_tokens,
     total_tokens_processed |-> total_tokens_processed]

\* process_image_with_metrics: the metrics of one inference
InferenceMetrics(inference_time, output_tokens, input_tokens) ==
    PerformanceMetrics(inference_time, output_tokens,
                       IF inference_time > 0 THEN <<output_tokens, inference_time>>
                       ELSE <<0, 1>>,
                       input_tokens, input_tokens + output_tokens)

\* A faulty start() that forgets to set the slot.
StartForgets(self, time) == self

\* PerformanceTracker.start, time being the reading of time.time()
start(self, time) == [self EXCEPT !.start_time = <<time>>]

\* A faulty end() that leaves the operation running.
EndKeepsRunning(self, time, tokens_generated, input_tokens) ==
    IF self.start_time = <<>>
    THEN [raised |-> "RuntimeError: PerformanceTracker.start() not called",
          self |-> self, value |-> <<>>]
    ELSE [raised |-> "",
          self |-> [self EXCEPT !.metrics =
                       Append(@, InferenceMetrics(time - self.start_time[1],
                                                  tokens_generated, input_tokens))],
          value |-> <<InferenceMetrics(time - self.start_time[1],
                                       tokens_generated, input_tokens)>>]

\* PerformanceTracker.end: [raised, self, value], self being the tracker
\* after the call and value the metrics returned (Optional).
end(self, time, tokens_generated, input_tokens) ==
    IF self.start_time = <<>>
    THEN [raised |-> "RuntimeError: PerformanceTracker.start() not called",
          self |-> self, value |-> <<>>]
    ELSE LET elapsed == time - self.start_time[1]
             tokens_per_sec == IF elapsed > 0 THEN <<tokens_generated, elapsed>> ELSE <<0, 1>>
             total_tokens == input_tokens + tokens_generated
             metrics == PerformanceMetrics(elapsed, tokens_generated, tokens_per_sec,
                                           input_tokens, total_tokens)
         IN [raised |-> "",
             self |-> [metrics |-> Append(self.metrics, metrics), start_time |-> <<>>],
             value |-> <<metrics>>]

AggregateMetrics(num_operations, total_time, total_tokens_generated, times, throughputs, total_input_tokens, total_tokens_processed) ==
    [num_operations |-> num_operations,
     total_time |-> total_time,
     total_tokens_generated |-> total_tokens_generated,
     min_time |-> SetMin(Range(times)),
     max_time |-> SetMax(Range(times)),
     avg_time |-> <<Sum(times), Len(times)>>,
     min_tokens_per_sec |-> FracMin(throughputs),
     max_tokens_per_sec |-> FracMax(throughputs),
     avg_tokens_per_sec |-> <<FracSum(throughputs)[1], FracSum(throughputs)[2] * Len(throughputs)>>,
     total_input_tokens |-> total_input_tokens,
     total_tokens_processed |-> total_tokens_processed]

\* A faulty aggregate() that leaves the input tokens out of the tokens
\* processed.
AggregateOutputOnly(self) ==
    IF self.metrics = <<>> THEN [raised |-> "ValueError: No metrics recorded", value |-> <<>>]
    ELSE [raised |-> "",
          value |-> <<AggregateMetrics(
              Len(self.metrics),
              Sum([i \in DOMAIN self.metrics |-> self.metrics[i].total_time]),
              Sum([i \in DOMAIN self.metrics |-> self.metrics[i].tokens_generated]),
              [i \in DOMAIN self.metrics |-> self.metrics[i].total_time],
              [i \in DOMAIN self.metrics |-> self.metrics[i].tokens_per_second],
              Sum([i \in DOMAIN self.metrics |-> self.metrics[i].input_tokens]),
              Sum([i \in DOMAIN self.metrics |-> self.metrics[i].tokens_generated]))>>]

\* PerformanceTracker.aggregate: [raised, value]; statistics.mean is kept as
\* the fraction sum / count.
aggregate(self) ==
    IF self.metrics = <<>> THEN [raised |-> "ValueError: No metrics recorded", value |-> <<>>]
    ELSE [raised |-> "",
          value |-> <<AggregateMetrics(
              Len(self.metrics),
              Sum([i \in DOMAIN self.metrics |-> self.metrics[i].total_time]),
              Sum([i \in DOMAIN self.metrics |-> self.metrics[i].tokens_generated]),
              [i \in DOMAIN self.metrics |-> self.metrics[i].total_time],
              [i \in DOMAIN self.metrics |-> self.metrics[i].tokens_per_second],
              Sum([i \in DOMAIN self.metrics |-> self.metrics[i].input_tokens]),
              Sum([i \in DOMAIN self.metrics |-> self.metrics[i].total_tokens_processed]))>>]

\* ------------------------------------------- one caller of a tracker
TrackerInit ==
    /\ TrackerIdle
    /\ FunctionsIdle
    /\ ExtractIdle
    /\ extract_options = DefaultOptions
    /\ PdfIdle

\* Time passes.
Tick ==
    /\ now < MaxClock
    /\ now' = now + 1
    /\ UNCHANGED <<tracker, started, call, client, overlapped>>
    /\ UNCHANGED <<extract_vars, extract_options, pdf_vars, function_vars>>

\* The token counts of an operation: (tokens_generated, input_tokens).
TokenCounts == {<<10, 0>>, <<20, 5>>}

\* tracker.start()
Start ==
    /\ tracker' = start(tracker, now)
    /\ started' = TRUE
    /\ call' = Call("start", "", <<>>)
    /\ UNCHANGED <<now, client, overlapped>>
    /\ UNCHANGED <<extract_vars, extract_options, pdf_vars, function_vars>>

\* tracker.end(tokens_generated, input_tokens)
End ==
    /\ tracker.start_time = <<>> \/ Len(tracker.metrics) < MaxOps
    /\ \E tokens \in TokenCounts :
          LET r == end(tracker, now, tokens[1], tokens[2])
          IN /\ tracker' = r.self
             /\ started' = IF r.raised = "" THEN FALSE ELSE started
             /\ call' = Call("end", r.raised, r.value)
    /\ UNCHANGED <<now, client, overlapped>>
    /\ UNCHANGED <<extract_vars, extract_options, pdf_vars, function_vars>>

\* tracker.metrics.append(page_metrics), as process_pdf_with_metrics records
\* the metrics process_image_with_metrics returned for a page.
AppendMetrics ==
    /\ Len(tracker.metrics) < MaxOps
    /\ \E inference_time \in 1..MaxClock :
          tracker' = [tracker EXCEPT !.metrics =
                         Append(@, InferenceMetrics(inference_time, 10 * inference_time, 5))]
    /\ call' = Call("append", "", <<>>)
    /\ UNCHANGED <<now, started, client, overlapped>>
    /\ UNCHANGED <<extract_vars, extract_options, pdf_vars, function_vars>>

\* tracker.aggregate()
Aggregate ==
    /\ LET r == aggregate(tracker)
       IN call' = Call("aggregate", r.raised, r.value)
    /\ UNCHANGED <<tracker, now, started, client, overlapped>>
    /\ UNCHANGED <<extract_vars, extract_options, pdf_vars, function_vars>>

TrackerNext == Tick \/ Start \/ End \/ AppendMetrics \/ Aggregate

SpecTracker == TrackerInit /\ [][TrackerNext]_vars

\* ------------------------------------- two clients sharing one tracker
Clients == {1, 2}

\* A client that has not called start() yet.
NewClient == [pc |-> "idle", start_time |-> <<>>, end_time |-> <<>>, raised |-> "",
              total_time |-> <<>>]

ClientsInit ==
    /\ tracker = PerformanceTracker
    /\ now = 0
    /\ started = FALSE
    /\ call = NoCall
    /\ client = [c \in Clients |-> NewClient]
    /\ overlapped = FALSE
    /\ FunctionsIdle
    /\ ExtractIdle
    /\ extract_options = DefaultOptions
    /\ PdfIdle

\* Time passes between the calls of the clients.
ClientsTick ==
    /\ now < MaxClock
    /\ now' = now + 1
    /\ UNCHANGED <<tracker, started, call, client, overlapped>>
    /\ UNCHANGED <<extract_vars, extract_options, pdf_vars, function_vars>>

\* Client c calls tracker.start().
ClientStart(c) ==
    /\ client[c].pc = "idle"
    /\ tracker' = start(tracker, now)
    /\ started' = TRUE
    /\ call' = Call("start", "", <<>>)
    /\ client' = [client EXCEPT ![c].pc = "started", ![c].start_time = <<now>>]
    /\ overlapped' = (overlapped \/ \E d \in Clients \ {c} : client[d].pc = "started")
    /\ UNCHANGED now
    /\ UNCHANGED <<extract_vars, extract_options, pdf_vars, function_vars>>

\* Client c, having called start(), calls tracker.end(...).
ClientEnd(c) ==
    /\ client[c].pc = "started"
    /\ \E tokens \in TokenCounts :
          LET r == end(tracker, now, tokens[1], tokens[2])
          IN /\ tracker' = r.self
             /\ started' = IF r.raised = "" THEN FALSE ELSE started
             /\ call' = Call("end", r.raised, r.value)
             /\ client' = [client EXCEPT
                              ![c].pc = "ended",
                              ![c].end_time = <<now>>,
                              ![c].raised = r.raised,
                              ![c].total_time = IF r.raised = "" THEN <<r.value[1].total_time>>
                                                ELSE <<>>]
    /\ UNCHANGED <<now, overlapped>>
    /\ UNCHANGED <<extract_vars, extract_options, pdf_vars, function_vars>>

ClientsNext ==
    \/ ClientsTick
    \/ \E c \in Clients : ClientStart(c)
    \/ \E c \in Clients : ClientEnd(c)

SpecClients == ClientsInit /\ [][ClientsNext]_vars

\* ================================================================= claims
\* The elements of all pages of the returned result, in page order.
ReturnedElements == Flatten([k \in DOMAIN returned[1].pages |-> returned[1].pages[k].elements])

\* The elements written to the elements.json files, as [path, element].
WrittenElements ==
    UNION {{[path |-> f.path, element |-> f.content.elements[i]] :
               i \in DOMAIN f.content.elements} :
           f \in {g \in files : g.content.kind = "json"}}

\* C1: after process_pdf_enhanced returned, no two elements of the returned
\* pages share an id, and no two elements written to the elements.json
\* files of the document share an id.
C1_IdsUniqueInDocument ==
    returned # <<>> =>
        /\ \A i, j \in DOMAIN ReturnedElements :
              i # j => ReturnedElements[i].id # ReturnedElements[j].id
        /\ \A a, b \in WrittenElements : a # b => a.element.id # b.element.id

\* C2: every element extracted from a page carries, in its page field and
\* in the page part of its id, the number of that page: the number of the
\* page's output directory and of its entry in the document structure.
C2_ElementPageIsOutputPage ==
    \A k \in DOMAIN page_results :
        /\ PageDir(page_results[k].page_number) \in dirs
        /\ returned # <<>> =>
              returned[1].structure.pages[k].page = page_results[k].page_number
        /\ \A i \in DOMAIN page_results[k].elements :
              LET e == page_results[k].elements[i]
              IN /\ e.page = page_results[k].page_number
                 /\ e.id = "page_" \o Pad4(page_results[k].page_number)
                           \o "_elem_" \o Pad4(e.index)

\* Both page bounds are given and 1 <= start_page <= end_page <= page_count.
BoundsInside ==
    /\ start_page # <<>>
    /\ end_page # <<>>
    /\ 1 <= start_page[1]
    /\ start_page[1] <= end_page[1]
    /\ end_page[1] <= page_count

\* The 1-indexed position of a page image in the sequence the PDF converts to.
PositionOf(path) == (CHOOSE f \in files : f.path = path).content.page_index + 1

\* C3: with 1 <= start_page <= end_page <= page_count, the page images
\* processed are those at positions start_page, start_page + 1, ... in
\* order, each numbered by its position, and a run that returns has
\* processed exactly end_page - start_page + 1 pages, listed in the
\* structure with the numbers start_page..end_page and counted in num_pages.
C3_RangeSelectsAndNumbersPages ==
    BoundsInside =>
        /\ \A k \in DOMAIN model_calls :
              PositionOf(model_calls[k].image_file) = start_page[1] + k - 1
        /\ \A k \in DOMAIN page_results :
              /\ PositionOf(page_results[k].image_path) = start_page[1] + k - 1
              /\ page_results[k].page_number = start_page[1] + k - 1
        /\ returned # <<>> =>
              LET structure == returned[1].structure
                  count == end_page[1] - start_page[1] + 1
              IN /\ Len(returned[1].pages) = count
                 /\ Len(model_calls) = count
                 /\ structure.document_metadata.num_pages = count
                 /\ Len(structure.pages) = count
                 /\ \A k \in 1..count : structure.pages[k].page = start_page[1] + k - 1

\* Pages 2 and 3 of a PDF of three or more pages were processed and returned.
C3_Witness ==
    /\ returned # <<>>
    /\ start_page = <<2>>
    /\ end_page = <<3>>
    /\ page_count >= 3
    /\ Len(returned[1].pages) = 2

\* C4: the combined markdown is the page blocks joined by one blank line,
\* where the block of the k-th processed page is the marker carrying the
\* page's number in the output structure, followed, when the page has
\* content, by a line break and the content; the page's output directory
\* carries the same number.
C4_MarkersCarryPageNumbers ==
    returned # <<>> =>
        LET pages == returned[1].structure.pages
        IN /\ returned[1].markdown =
                 JoinBlocks([k \in DOMAIN pages |->
                                IF page_markdowns[k] # <<>>
                                THEN <<"<!-- Page " \o ToString(pages[k].page) \o " -->", "\n">>
                                     \o page_markdowns[k]
                                ELSE <<"<!-- Page " \o ToString(pages[k].page) \o " -->">>])
           /\ \A k \in DOMAIN pages : PageDir(pages[k].page) \in dirs
           /\ [path |-> PdfStem \o ".md",
               content |-> [kind |-> "text", tokens |-> returned[1].markdown]] \in files

\* C5: document_metadata of the structure returned and written has
\* total_elements equal to the sum of the pages' num_elements, and an
\* element_counts histogram mapping every element type to its number of
\* occurrences over all pages.
C5_TotalsAndHistogram ==
    returned # <<>> =>
        LET structure == returned[1].structure
            metadata == structure.document_metadata
        IN /\ [path |-> "document_structure.json",
               content |-> [kind |-> "structure", structure |-> structure]] \in files
           /\ metadata.total_elements =
                 Sum([k \in DOMAIN structure.pages |-> structure.pages[k].num_elements])
           /\ "element_counts" \in DOMAIN metadata
           /\ DOMAIN metadata.element_counts =
                 {ReturnedElements[i].type : i \in DOMAIN ReturnedElements}
           /\ \A t \in DOMAIN metadata.element_counts :
                 metadata.element_counts[t] =
                    Cardinality({i \in DOMAIN ReturnedElements : ReturnedElements[i].type = t})

\* The positions of the page images the requested range selects, with
\* 1-indexed inclusive bounds; an absent bound does not restrict.
RequestedPositions ==
    {p \in 1..page_count :
        /\ start_page = <<>> \/ start_page[1] <= p
        /\ end_page = <<>> \/ p <= end_page[1]}

\* Output directories of pages, and the document-level artifacts, on disk.
PageDirsOnDisk == dirs \cap {PageDir(n) : n \in (-2)..(2 * MaxPages + 2)}

DocumentArtifacts ==
    {f \in files : f.path \in {PdfStem \o ".md", "document_structure.json"}
                   \/ f.content.kind = "json"}

\* C6: when the requested range selects no page image of a PDF that has
\* pages, process_pdf_enhanced fails with the out-of-range error and no page
\* directory is created, no page is sent to the model, and no combined
\* markdown or structure is written.
C6_EmptyRangeFailsBeforePages ==
    (pc # "start" /\ page_count > 0 /\ RequestedPositions = {}) =>
        /\ pc = "error"
        /\ raised = "ValueError: No pages in range"
        /\ PageDirsOnDisk = {}
        /\ model_calls = <<>>
        /\ DocumentArtifacts = {}
        /\ returned = <<>>

\* The inference of a page left no output at all, or no result_raw.txt.
FailingOutcome(outcome) ==
    \/ outcome.result = <<>> /\ outcome.result_mmd = <<>>
    \/ outcome.result_raw = <<>>

\* What C7 states apart from the directories that remain.
PageFailureSurfaces ==
    /\ \A i \in DOMAIN model_calls :
          FailingOutcome(model_calls[i].outcome) =>
              /\ i = Len(model_calls)
              /\ pc = "error"
              /\ raised # ""
              /\ returned = <<>>
    /\ \A i, j \in DOMAIN model_calls :
          i # j => model_calls[i].image_file # model_calls[j].image_file
    /\ pc = "error" => DocumentArtifacts = {}
    /\ DocumentArtifacts # {} =>
          /\ pc = "done"
          /\ Len(page_results) = Len(image_paths)
          /\ Len(model_calls) = Len(image_paths)

\* C7 (as stated): a failing page ends the call with its exception, is not
\* retried, no later page is processed, no document-level artifact is
\* written, and only the output directories of the pages processed before
\* the failure are on disk.
C7_OnlyEarlierPageDirsRemain ==
    /\ PageFailureSurfaces
    /\ (pc = "error" /\ model_calls # <<>>) =>
          PageDirsOnDisk = {PageDir(page_results[k].page_number) : k \in DOMAIN page_results}

\* C7 (amended): as above, but the directories on disk are those of the
\* pages processed before the failure and the directory of the failing page
\* itself, which is created before the page is processed.
C7_FailingPageDirRemainsToo ==
    /\ PageFailureSurfaces
    /\ (pc = "error" /\ model_calls # <<>>) =>
          /\ \A k \in DOMAIN page_results : PageDir(page_results[k].page_number) \in dirs
          /\ Cardinality(PageDirsOnDisk) = Len(page_results) + 1
          /\ Len(model_calls) = Len(page_results) + 1

\* The second page of three lacks result_raw.txt: the call has failed after
\* one page was processed, and the third page is never processed.
C7_Witness ==
    /\ pc = "error"
    /\ Len(page_results) = 1
    /\ Len(model_calls) = 2
    /\ Len(image_paths) = 3
    /\ model_calls[2].outcome.result_mmd # <<>>
    /\ model_calls[2].outcome.result_raw = <<>>

\* The references parsed from the raw output, and the boxes of a reference
\* that survive validation and the size filter.
ParsedReferences == parse_grounding_references(model_output)

SurvivingBoxes(ref) ==
    IF parse_coordinates(ref.coords) = <<>> THEN <<>>
    ELSE BoundingBoxes(parse_coordinates(ref.coords)[1],
                       image.width, image.height, extract_options).boxes

\* C8: the elements returned by extract_all_elements carry the indices
\* 0, 1, ..., n-1 in list order, and the id of each is
\* page_{page_number:04d}_elem_{index:04d}; skipped references consume no
\* index.
C8_IndicesContiguous ==
    extract_pc = "returned" =>
        /\ \A i \in DOMAIN elements :
              /\ elements[i].index = i - 1
              /\ elements[i].page = page_number
              /\ elements[i].id = ElementId(page_number, i - 1)
        /\ (page_number = 12 /\ Len(elements) >= 2) =>
              /\ elements[1].id = "page_0012_elem_0000"
              /\ elements[2].id = "page_0012_elem_0001"
        /\ (page_number = 1 /\ Len(elements) >= 2) =>
              /\ elements[1].id = "page_0001_elem_0000"
              /\ elements[2].id = "page_0001_elem_0001"

\* Of three references the second loses its only box to the size filter:
\* two elements are returned.
C8_Witness ==
    /\ extract_pc = "returned"
    /\ Len(ParsedReferences) = 3
    /\ ParsedReferences[2].coords = "[[0,0,40,999]]"
    /\ extract_options.min_width = 10
    /\ Len(elements) = 2
    /\ elements[2].type = ParsedReferences[3].label

\* C9: the types of the elements returned are, in order and verbatim, the
\* labels of the parsed references that keep at least one box, and every
\* element returned has at least one box.
C9_TypesAreSurvivingLabels ==
    extract_pc = "returned" =>
        LET surviving == SelectSeq(ParsedReferences, LAMBDA ref : SurvivingBoxes(ref) # <<>>)
        IN /\ Len(elements) = Len(surviving)
           /\ \A i \in DOMAIN elements :
                 /\ elements[i].type = surviving[i].label
                 /\ elements[i].bounding_boxes # <<>>
                 /\ elements[i].metrics.num_boxes >= 1

\* Three references are parsed, one is skipped, and the two elements
\* returned have different types, one of them with a blank in its label.
C9_Witness ==
    /\ extract_pc = "returned"
    /\ Len(ParsedReferences) = 3
    /\ Len(elements) = 2
    /\ elements[1].type = "sub title"
    /\ elements[2].type = "title"

\* The integer part of num / den, for den > 0.
IntegerPart(num, den) == IF num >= 0 THEN num \div den ELSE -((-num) \div den)

\* The box of a quadruple in pixels, each coordinate c mapped to the
\* integer part of c * dim / 999.
ScaledBox(q) ==
    Box(IntegerPart(q[1] * image.width, 999), IntegerPart(q[2] * image.height, 999),
        IntegerPart(q[3] * image.width, 999), IntegerPart(q[4] * image.height, 999))

\* The clipped box of a quadruple is kept.
BoxKept(q) ==
    LET clipped == clip_bbox_to_image(ScaledBox(q), image.width, image.height)
    IN /\ extract_options.validate_strict =>
             validate_bbox(ScaledBox(q), image.width, image.height, TRUE)
       /\ clipped.x2 - clipped.x1 >= extract_options.min_width
       /\ clipped.y2 - clipped.y1 >= extract_options.min_height

\* The boxes C10 gives a reference: the clipped boxes of its kept 4-number
\* quadruples, in order.
Quadruples(ref) ==
    IF parse_coordinates(ref.coords) = <<>> THEN <<>>
    ELSE SelectSeq(parse_coordinates(ref.coords)[1],
                   LAMBDA item : item.kind = "seq" /\ Len(item.nums) = 4)

StatedBoxes(ref) ==
    LET kept == SelectSeq(Quadruples(ref), LAMBDA item : BoxKept(item.nums))
    IN [i \in DOMAIN kept |->
           clip_bbox_to_image(ScaledBox(kept[i].nums), image.width, image.height)]

\* C10: the bounding boxes of the element emitted for a reference are, in
\* order, the clipped boxes of its 4-number quadruples, every coordinate c
\* mapped to the integer part of c * dim / 999, that pass the size filter
\* and, under strict validation, the validation before clipping; with the
\* defaults [[0,0,100,50]] on a 200 x 200 image gives the box (0,0,20,10).
C10_BoxesAreScaledClippedFiltered ==
    extract_pc = "returned" =>
        LET emitted == SelectSeq(ParsedReferences, LAMBDA ref : StatedBoxes(ref) # <<>>)
        IN /\ Len(elements) = Len(emitted)
           /\ \A i \in DOMAIN elements : elements[i].bounding_boxes = StatedBoxes(emitted[i])
           /\ (/\ model_output = Reference("title", "[[0,0,100,50]]")
               /\ image = [width |-> 200, height |-> 200]
               /\ extract_options = DefaultOptions) =>
                 /\ Len(elements) = 1
                 /\ elements[1].bounding_boxes = <<Box(0, 0, 20, 10)>>

\* C11: every bounding box of every element returned is non-degenerate and
\* inside the image: x1 < x2, y1 < y2, 0 <= x1, x2 <= width, 0 <= y1,
\* y2 <= height, for every option setting.
C11_BoxesNonDegenerateInsideImage ==
    extract_pc = "returned" =>
        \A i \in DOMAIN elements :
            \A j \in DOMAIN elements[i].bounding_boxes :
                LET b == elements[i].bounding_boxes[j]
                IN /\ b.x1 < b.x2
                   /\ b.y1 < b.y2
                   /\ 0 <= b.x1
                   /\ b.x2 <= image.width
                   /\ 0 <= b.y1
                   /\ b.y2 <= image.height

\* The area of one box.
BoxArea(b) == (b.x2 - b.x1) * (b.y2 - b.y1)

RECURSIVE AreaSum(_)
\* The sum of the areas of the boxes of a list, each box counted by itself.
AreaSum(boxes) == IF boxes = <<>> THEN 0 ELSE BoxArea(boxes[1]) + AreaSum(Tail(boxes))

\* C12: for every element returned, metrics.num_boxes is the number of its
\* bounding boxes and of its normalized boxes, metrics.total_area is the
\* sum of the areas of the boxes, metrics.width and metrics.height are
\* max(x2) - min(x1) and max(y2) - min(y1) over the boxes, and aspect_ratio
\* is width / height when height > 0 and 0 otherwise.
C12_MetricsOfElement ==
    extract_pc = "returned" =>
        \A i \in DOMAIN elements :
            LET e == elements[i]
                boxes == e.bounding_boxes
                width == SetMax({boxes[j].x2 : j \in DOMAIN boxes})
                         - SetMin({boxes[j].x1 : j \in DOMAIN boxes})
                height == SetMax({boxes[j].y2 : j \in DOMAIN boxes})
                          - SetMin({boxes[j].y1 : j \in DOMAIN boxes})
            IN /\ e.metrics.num_boxes = Len(boxes)
               /\ e.metrics.num_boxes = Len(e.bounding_boxes_normalized)
               /\ e.metrics.total_area = AreaSum(boxes)
               /\ e.metrics.width = width
               /\ e.metrics.height = height
               /\ e.metrics.aspect_ratio = IF height > 0 THEN <<width, height>> ELSE <<0, 1>>

\* An element of two overlapping boxes is returned: its total_area exceeds
\* the area of its envelope.
C12_Witness ==
    /\ extract_pc = "returned"
    /\ \E i \in DOMAIN elements :
          /\ elements[i].metrics.num_boxes = 2
          /\ elements[i].metrics.total_area
                > elements[i].metrics.width * elements[i].metrics.height

\* C13: extract_all_elements never fails because of a malformed coordinate
\* literal: the call returns, and every reference of the text that keeps a
\* box is emitted.
C13_MalformedInputNeverFails ==
    extract_pc # "writing" =>
        /\ extract_pc = "returned"
        /\ Len(elements)
              = Len(SelectSeq(ParsedReferences, LAMBDA ref : Quadruples(ref) # <<>>
                                                                /\ SurvivingBoxes(ref) # <<>>))

\* The literals of the model that are built from digits, decimal points,
\* commas, brackets and minus signs only.
NumericListLiterals ==
    {"[[0,0,100,50]]", "[[0,0,40,999]]", "[[63,0,252,999],[500,500,100,100]]",
     "[[-50,0,500,500],[100,100,500,500]]", "[[1,2,3],[900,900,1200,1200]]",
     "[[100,100,100,500]]", "[1,2,3,4]", "[[0,0,100"}

\* C14: parse_coordinates returns a list of number lists only for a literal
\* of the numeric-list grammar, and returns None for every literal that
\* holds any other token.
C14_OnlyNumericListGrammar ==
    applied = "parse_coordinates" =>
        /\ (/\ result # <<>>
            /\ \A i \in DOMAIN result[1] : result[1][i].kind = "seq")
              => arguments.coords_str \in NumericListLiterals
        /\ arguments.coords_str \notin NumericListLiterals => result = <<>>

\* The union envelope of a list of boxes.
Envelope(bboxes) ==
    Box(SetMin({b.x1 : b \in Range(bboxes)}), SetMin({b.y1 : b \in Range(bboxes)}),
        SetMax({b.x2 : b \in Range(bboxes)}), SetMax({b.y2 : b \in Range(bboxes)}))

\* A box grown by pad on each side.
Expanded(bbox, pad) ==
    Box(bbox.x1 - pad, bbox.y1 - pad, bbox.x2 + pad, bbox.y2 + pad)

\* Each coordinate clamped into the image on its own.
Clamped(bbox, w, h) ==
    Box(Max(0, Min(bbox.x1, w)), Max(0, Min(bbox.y1, h)),
        Max(0, Min(bbox.x2, w)), Max(0, Min(bbox.y2, h)))

\* C15: extract_element_content returns None for an element without boxes,
\* and otherwise the crop of the union envelope of the element's boxes,
\* expanded by the padding and then clipped to the image, for every padding
\* (0 included) and every element.
C15_CropIsClippedPaddedEnvelope ==
    applied = "extract_element_content" =>
        result = IF arguments.element.bounding_boxes = <<>> THEN <<>>
                 ELSE <<Clamped(Expanded(Envelope(arguments.element.bounding_boxes),
                                         arguments.padding),
                                arguments.image.width, arguments.image.height)>>

\* C16: validate_bbox returns True exactly when the dict has all four
\* fields as numbers with x1 < x2, y1 < y2, no negative coordinate and, unless
\* boxes out of bounds are allowed, x2 <= width and y2 <= height; it returns
\* False for a missing or malformed field.
C16_ValidateExactly ==
    applied = "validate_bbox" =>
        (result = TRUE
            <=> /\ arguments.bbox.missing = {}
                /\ arguments.bbox.malformed = {}
                /\ arguments.bbox.nan = {}
                /\ arguments.bbox.fields.x1 < arguments.bbox.fields.x2
                /\ arguments.bbox.fields.y1 < arguments.bbox.fields.y2
                /\ arguments.bbox.fields.x1 >= 0 /\ arguments.bbox.fields.y1 >= 0
                /\ arguments.bbox.fields.x2 >= 0 /\ arguments.bbox.fields.y2 >= 0
                /\ \/ arguments.allow_out_of_bounds
                   \/ /\ arguments.bbox.fields.x2 <= arguments.image.width
                      /\ arguments.bbox.fields.y2 <= arguments.image.height)

\* C17: add_padding returns the box expanded by the padding and then
\* clipped to the image, so that every coordinate of the result lies in the
\* image, for every box, inside the image or not.
C17_PaddingIsClipOfExpansion ==
    applied = "add_padding" =>
        /\ result = Clamped(Expanded(arguments.bbox, arguments.padding),
                            arguments.image.width, arguments.image.height)
        /\ 0 <= result.x1 /\ result.x1 <= arguments.image.width
        /\ 0 <= result.x2 /\ result.x2 <= arguments.image.width
        /\ 0 <= result.y1 /\ result.y1 <= arguments.image.height
        /\ 0 <= result.y2 /\ result.y2 <= arguments.image.height

InsideImage(bbox, size) ==
    /\ 0 <= bbox.x1 /\ bbox.x1 <= size.width
    /\ 0 <= bbox.x2 /\ bbox.x2 <= size.width
    /\ 0 <= bbox.y1 /\ bbox.y1 <= size.height
    /\ 0 <= bbox.y2 /\ bbox.y2 <= size.height

\* C18: clip_bbox_to_image is idempotent, every coordinate of its result
\* lies in the image, and a box already inside the image is returned
\* unchanged.
C18_ClipIdempotentAndBounding ==
    applied = "clip_bbox_to_image" =>
        /\ clip_bbox_to_image(result, arguments.image.width, arguments.image.height) = result
        /\ InsideImage(result, arguments.image)
        /\ InsideImage(arguments.bbox, arguments.image) => result = arguments.bbox

\* A box with a coordinate left of the image and one right of it is clipped
\* to another box.
C18_Witness ==
    /\ applied = "clip_bbox_to_image"
    /\ arguments.bbox.x1 < 0
    /\ arguments.bbox.x2 > arguments.image.width
    /\ arguments.image.width > 0
    /\ result # arguments.bbox

ValidBox(bbox) == bbox.x1 < bbox.x2 /\ bbox.y1 < bbox.y2

\* Two boxes that share no interior point.
Apart(a, b) == a.x2 <= b.x1 \/ b.x2 <= a.x1 \/ a.y2 <= b.y1 \/ b.y2 <= a.y1

\* C19: check_overlap is symmetric, is 1 for a valid box and itself, is 0
\* for valid boxes that are disjoint or touch along an edge, and lies in
\* [0, 1] for all arguments, degenerate and inverted ones included.
C19_IouLaws ==
    applied = "check_overlap" =>
        /\ 0 <= result[1] /\ result[1] <= result[2] /\ result[2] > 0
        /\ (ValidBox(arguments.bbox1) /\ ValidBox(arguments.bbox2)) =>
              /\ check_overlap(arguments.bbox2, arguments.bbox1) = result
              /\ arguments.bbox1 = arguments.bbox2 => result[1] = result[2]
              /\ Apart(arguments.bbox1, arguments.bbox2) => result[1] = 0

\* Two different valid boxes that overlap in part.
C19_Witness ==
    /\ applied = "check_overlap"
    /\ ValidBox(arguments.bbox1) /\ ValidBox(arguments.bbox2)
    /\ arguments.bbox1 # arguments.bbox2
    /\ 0 < result[1] /\ result[1] < result[2]

\* The elements of the page that crop_and_save_element saves, and those it
\* returns None for.
Saved(element) ==
    crop_and_save_element(image, element, "elements", arguments.padding,
                          arguments.save_metadata, {}).path # <<>>

\* C20: save_all_elements goes through every element in list order, an
\* element that cannot be cropped or saved is passed over, and the mapping
\* returned holds exactly the ids of the elements crop_and_save_element
\* returned a path for, each with its file on disk.
C20_SaveAllKeepsGoing ==
    applied = "save_all_elements" =>
        LET saved == SelectSeq(elements, Saved)
        IN /\ Len(result) = Len(saved)
           /\ \A i \in DOMAIN saved :
                 /\ result[i].id = saved[i].id
                 /\ result[i].path = "elements/" \o saved[i].id \o "_" \o saved[i].type \o ".jpg"
                 /\ \E f \in files : f.path = result[i].path

\* The first element of the page is not saved and a later one is.
C20_Witness ==
    /\ applied = "save_all_elements"
    /\ Len(elements) >= 2
    /\ ~Saved(elements[1])
    /\ \E i \in 2..Len(elements) : Saved(elements[i]) /\ \E j \in DOMAIN result :
                                                            result[j].id = elements[i].id

\* The types of the elements the overlays were generated for.
OverlayTypes == {e.type : e \in Range(arguments.elements)}

\* The overlay files of the call whose save does not fail.
WritableOverlays ==
    ({"overlays/" \o type \o "_only.jpg" : type \in OverlayTypes}
     \cup {"overlays/all_types_colored.jpg"}) \ arguments.unwritable

\* The overlay files written by the call.
WrittenOverlays == {f.path : f \in files \ arguments.disk.files}

\* C21: when the save of an overlay fails, generate_type_overlays returns a
\* mapping without that overlay and still saves every other per-type
\* overlay and the combined overlay.
C21_OverlayFailureRecovered ==
    (/\ applied = "generate_type_overlays"
     /\ arguments.elements # <<>>
     /\ arguments.unwritable # {}
     /\ "all_types" \notin OverlayTypes) =>
        /\ result.raised = ""
        /\ {e.path : e \in Range(result.saved_overlays)} = WritableOverlays
        /\ WritableOverlays \subseteq {f.path : f \in files}

\* C22: generate_type_overlays on an empty element list returns an empty
\* mapping and writes no overlay file, whatever lies in the output directory.
C22_NoElementsNoOverlays ==
    (applied = "generate_type_overlays" /\ arguments.elements = <<>>) =>
        /\ result.raised = ""
        /\ result.saved_overlays = <<>>
        /\ files = arguments.disk.files

\* No elements, and the overlays of an earlier run in the directory.
C22_Witness ==
    /\ applied = "generate_type_overlays"
    /\ arguments.elements = <<>>
    /\ arguments.disk.files # {}
    /\ files = arguments.disk.files
    /\ "overlays" \in dirs

\* C29: for a non-empty element list with k distinct types, the mapping
\* returned has k + 1 entries: one per type, in sorted order, pointing to
\* {type}_only.jpg, and then "all_types" pointing to all_types_colored.jpg.
C29_OneEntryPerTypePlusCombined ==
    (/\ applied = "generate_type_overlays"
     /\ arguments.elements # <<>>
     /\ result.raised = "") =>
        LET element_types == Sorted(OverlayTypes)
            k == Cardinality(OverlayTypes)
        IN /\ Len(result.saved_overlays) = k + 1
           /\ \A i \in 1..k :
                 /\ i \in DOMAIN result.saved_overlays
                 /\ result.saved_overlays[i]
                       = [key |-> element_types[i],
                          path |-> "overlays/" \o element_types[i] \o "_only.jpg"]
           /\ result.saved_overlays[Len(result.saved_overlays)]
                 = [key |-> "all_types", path |-> "overlays/all_types_colored.jpg"]

\* C23: the tracker is Idle or Running.  end() fails exactly when no start()
\* was called since construction or since the last successful end(); a
\* failed end() changes nothing; a successful end() appends one record whose
\* total_tokens_processed is input_tokens + tokens_generated and leaves the
\* tracker Idle, so that the end() right after it fails; start() adds no
\* record.
C23_TrackerIdleOrRunning ==
    /\ started <=> tracker.start_time # <<>>
    /\ call.op = "end" =>
          /\ call.raised # "" <=> ~call.was_started
          /\ call.raised # "" => tracker = call.before
          /\ call.raised = "" =>
                /\ Len(tracker.metrics) = Len(call.before.metrics) + 1
                /\ SubSeq(tracker.metrics, 1, Len(call.before.metrics)) = call.before.metrics
                /\ call.value = <<tracker.metrics[Len(tracker.metrics)]>>
                /\ call.value[1].total_tokens_processed
                      = call.value[1].input_tokens + call.value[1].tokens_generated
                /\ ~started
          /\ (call.prev_op = "end" /\ call.prev_raised = "") => call.raised # ""
    /\ call.op = "start" =>
          /\ tracker.metrics = call.before.metrics
          /\ started

\* An end() that fails right after an end() that succeeded.
C23_Witness ==
    /\ call.op = "end"
    /\ call.raised # ""
    /\ call.prev_op = "end"
    /\ call.prev_raised = ""
    /\ tracker.metrics # <<>>

\* The recorded values of one field, in order.
Recorded(field) == [i \in DOMAIN tracker.metrics |-> tracker.metrics[i][field]]

C25_SerializedPairsAreSound ==
    ~overlapped =>
        \A c \in Clients :
            client[c].pc = "ended" =>
                /\ client[c].raised = ""
                /\ client[c].total_time = <<client[c].end_time[1] - client[c].start_time[1]>>

\* Overlapping pairs: one client's end() has failed although it called
\* start(), and the other's recorded time is measured from the wrong start().
C25_Witness ==
    /\ overlapped
    /\ \E c \in Clients :
          /\ client[c].pc = "ended"
          /\ client[c].start_time # <<>>
          /\ client[c].raised # ""
    /\ \E c \in Clients :
          /\ client[c].pc = "ended"
          /\ client[c].raised = ""
          /\ client[c].total_time # <<client[c].end_time[1] - client[c].start_time[1]>>

\* C26: for all start_page and end_page, zero, negative and beyond the last
\* page included, every page image sent to the model lies at a 1-indexed
\* position p with start_page <= p <= end_page, and every page processed is
\* numbered with the position of its image.
C26_OnlyRequestedPagesOwnNumbers ==
    /\ \A k \in DOMAIN model_calls :
          PositionOf(model_calls[k].image_file) \in RequestedPositions
    /\ \A k \in DOMAIN page_results :
          /\ PositionOf(page_results[k].image_path) \in RequestedPositions
          /\ page_results[k].page_number = PositionOf(page_results[k].image_path)

\* The tagged region that opens at token p of the text: <<a, b>>, the places
\* of its closing reference tag and of its closing detection tag, when the
\* label between p and a and the literal between a + 1 and b hold no
\* delimiter; <<>> when no such region opens at p.
RegionAt(text, p) ==
    LET closings == {a \in (p + 1)..(Len(text) - 2) :
                        /\ text[a] = REF_CLOSE
                        /\ text[a + 1] = DET_OPEN
                        /\ \A i \in (p + 1)..(a - 1) : text[i] \notin Delimiters}
        ends(a) == {b \in (a + 2)..Len(text) :
                        /\ text[b] = DET_CLOSE
                        /\ \A i \in (a + 2)..(b - 1) : text[i] \notin Delimiters}
    IN IF text[p] # REF_OPEN \/ closings = {} THEN <<>>
       ELSE IF ends(SetMin(closings)) = {} THEN <<>>
       ELSE <<SetMin(closings), SetMin(ends(SetMin(closings)))>>

\* The (label, literal) pairs of the tagged regions of the text, in order.
TaggedRegions(text) ==
    LET opens == SelectSeq([p \in 1..Len(text) |-> p], LAMBDA p : RegionAt(text, p) # <<>>)
    IN [k \in DOMAIN opens |->
           [label |-> Join(SubSeq(text, opens[k] + 1, RegionAt(text, opens[k])[1] - 1)),
            coords |-> Join(SubSeq(text, RegionAt(text, opens[k])[1] + 2,
                                   RegionAt(text, opens[k])[2] - 1))]]

\* C27: parse_grounding_references returns one (label, literal) pair per
\* tagged region of the text, neither holding a delimiter; a reference tag
\* that no detection tag follows directly gives no pair and leaves the
\* labels of the later pairs alone.
C27_OnePairPerTaggedRegion ==
    parse_grounding_references(model_output) = TaggedRegions(model_output)

\* C28: after save_all_elements has returned, the id of an element is a key
\* of the mapping exactly when its crop {id}_{type}.jpg was written during
\* the call: an element that failed leaves no crop image, also when the
\* metadata file was what failed.
C28_KeysAreTheCropsWritten ==
    (applied = "save_all_elements" /\ arguments.elements # <<>>) =>
        \A i \in DOMAIN arguments.elements :
            (\E k \in DOMAIN result : result[k].id = arguments.elements[i].id)
            <=> (\E f \in files :
                    f.path = "elements/" \o arguments.elements[i].id \o "_"
                             \o arguments.elements[i].type \o ".jpg")

\* C30: whenever process_pdf_enhanced returns a result, the endpoint answers
\* with success = true, the structure of the pipeline and num_pages equal to
\* the number of pages processed; success = false is answered only when the
\* pipeline failed.
C30_ResultGivesSuccessResponse ==
    applied = "process_pdf_enhanced_endpoint" =>
        /\ returned # <<>> =>
              /\ result.success
              /\ result.structure = returned[1].structure
              /\ result.num_pages = Len(returned[1].pages)
        /\ ~result.success => returned = <<>>

====
